---- MODULE Spec2Model ----
(***************************************************************************)
(* Model of the collision-avoidance core of RVG_DSS (rvg_leidarstein_core): *)
(*   - encounter_classifier_dsm: the per-target hysteresis state machine,   *)
(*   - arpa: CPA and safety-radius geometry,                                *)
(*   - colav_manager + the main loop of run_leidarstein.py.                 *)
(* and of the parts around it: the CBF domain table and its file, the      *)
(* coordinate conversions of simulation_transform, the AIS histories of    *)
(* simulation_server and the construction of the CBF predictor.            *)
(* The specifications of the module: SpecDsm drives one state machine with *)
(* arbitrary inputs, SpecArpa runs arpa._process_data on a grid of         *)
(* geometries, Spec is the coordinator's update loop with its ingress      *)
(* thread and its CBF worker process (SpecLive: with a main thread that    *)
(* keeps running), SpecDomains the domain table, SpecTransform one call    *)
(* of deg_2_dec or dec_2_deg, SpecSim _set_history, SpecCbf the predictor. *)
(***************************************************************************)
EXTENDS Integers, Sequences, FiniteSets, TLC

VARIABLES
  \* ---- encounter_classifier_dsm (one instance) ----
  dsm_th,          \* the six thresholds given to __init__
  current_state,   \* StateMachine.current_state (the Encounters member's name)
  dsm_in,          \* arguments of the last update call and the state between
                   \* its entry block and its exit block (mid), or NoInput
  \* ---- arpa (one instance, one cycle) ----
  arpa_gunnerus_data,  \* arpa._gunnerus_data
  arpa_ais_data,       \* arpa._ais_data
  arpa_out,            \* what _process_data returned, or Pending
  \* ---- colav_manager and the main loop of run_leidarstein.py ----
  gunnerus_data,          \* colav_manager._gunnerus_data
  ais_data,               \* colav_manager._ais_data: key -> AIS record
  ais_order,              \* the keys of _ais_data in insertion order
  deep_copy,              \* copy.deepcopy(self._ais_data) in progress
  encounter_classifiers,  \* colav_manager._encounter_classifiers: mmsi -> state
  running,                \* colav_manager._running
  pc,                     \* the statement the main thread is at
  now,                    \* time(), in units of update_interval
  cycle,                  \* number of update cycles started
  start,                  \* start = time() of the current cycle
  cbf_process,            \* cycle -> state of the Process started in that cycle
  q,                      \* the multiprocessing queue (results, by cycle)
  ret_var,                \* the result the main loop took from q
  relay,                  \* messages the websocket has sent, in order
  sent_data,              \* "data" of the message sent last
  trace,                  \* steps of the current cycle, in order of execution
  \* ---- the CBF domain table (colav_manager, websocket, cbf_domains.json) ----
  received_data,     \* websocket.received_data["cbf_domains"], or None
  cbf_domains,       \* colav_manager.cbf_domains
  cbf_domains_json,  \* what the file cbf_domains.json holds
  dom_pc,            \* where update_cbf_domain_data is: "idle", "write", "stopped"
  handled,           \* the value update_cbf_domain_data read last, or None
  \* ---- simulation_transform: one call of deg_2_dec or dec_2_deg ----
  transform,         \* the function called, its arguments, what it returned
  \* ---- simulation_server: the histories of the AIS tracks ----
  ais_history,       \* simulation_server.ais_history: message_id -> histories
  sim_msg,           \* the message _set_history was called with last, or None
  sim_pc,            \* the thread of simulation_server.start: "running", "crashed"
  \* ---- the CBF predictor (cbf_poly, cbf_4dof, cbf) ----
  cbf_predictor,     \* the constructor's arguments and the attributes it sets
  hist_p,            \* columns of the trajectory _process_data returned, or None
  \* ---- simulation_server._send (with sim_msg, ais_history, ais_data, relay) ----
  ws_enable,         \* websocket.enable
  gunnerus_coords,   \* simulation_server.gunnerus_lat, gunnerus_lon, or None
  send_count,        \* number of messages _send has been called with
  send_pc,           \* where _send is: "idle", or "compose" (after the store)
  \* ---- one rollout of cbf_poly._process_data ----
  rollout,           \* the locals of _process_data and where it is
  \* ---- encounter_classifier: one call of classify_encounter ----
  classification,    \* the arguments, the sectors found and the class returned
  \* ---- mqtt_datastream_manager and fast_serializer (two threads) ----
  serializer,        \* parsed_msg_list, sorted_data, where the serializer is
  \* ---- simulation_manager, its servers, the websocket, the router buffer ----
  simulation_manager \* mode, data_mode received, servers and their threads

dsm_vars == <<dsm_th, current_state, dsm_in>>
arpa_vars == <<arpa_gunnerus_data, arpa_ais_data, arpa_out>>
colav_vars ==
  <<gunnerus_data, ais_data, ais_order, deep_copy, encounter_classifiers,
    running, pc, now, cycle, start, cbf_process, q, ret_var, relay, sent_data,
    trace>>
dom_vars == <<received_data, cbf_domains, cbf_domains_json, dom_pc, handled>>
\* the variables of the parts that the coordinator's update loop leaves alone
tf_vars == <<transform>>
sim_vars == <<ais_history, sim_msg, sim_pc>>
cbf_vars == <<cbf_predictor, hist_p>>
send_vars == <<ws_enable, gunnerus_coords, send_count, send_pc>>
ro_vars == <<rollout>>
ec_vars == <<classification>>
ser_vars == <<serializer>>
mgr_vars == <<simulation_manager>>
ext_vars ==
  <<dom_vars, tf_vars, sim_vars, cbf_vars, send_vars, ro_vars, ec_vars, ser_vars, mgr_vars>>
core_vars == <<dsm_vars, arpa_vars, colav_vars>>
vars == <<core_vars, ext_vars>>
\* what the steps of each of the outer parts leave alone
not_dom_vars ==
  <<core_vars, tf_vars, sim_vars, cbf_vars, send_vars, ro_vars, ec_vars,
    ser_vars, mgr_vars>>
not_tf_vars ==
  <<core_vars, dom_vars, sim_vars, cbf_vars, send_vars, ro_vars, ec_vars,
    ser_vars, mgr_vars>>
not_sim_vars ==
  <<core_vars, dom_vars, tf_vars, cbf_vars, send_vars, ro_vars, ec_vars,
    ser_vars, mgr_vars>>
not_cbf_vars ==
  <<core_vars, dom_vars, tf_vars, sim_vars, send_vars, ro_vars, ec_vars,
    ser_vars, mgr_vars>>
not_send_vars ==
  <<dsm_vars, arpa_vars, deep_copy, encounter_classifiers, running, pc, now,
    cycle, start, cbf_process, q, ret_var, sent_data, trace, dom_vars,
    tf_vars, cbf_vars, ro_vars, ec_vars, ser_vars, mgr_vars>>
not_ro_vars ==
  <<core_vars, dom_vars, tf_vars, sim_vars, cbf_vars, send_vars, ec_vars,
    ser_vars, mgr_vars>>
not_ec_vars ==
  <<core_vars, dom_vars, tf_vars, sim_vars, cbf_vars, send_vars, ro_vars,
    ser_vars, mgr_vars>>
not_ser_vars ==
  <<core_vars, dom_vars, tf_vars, sim_vars, cbf_vars, send_vars, ro_vars,
    ec_vars, mgr_vars>>
not_mgr_vars ==
  <<core_vars, dom_vars, tf_vars, sim_vars, cbf_vars, send_vars, ro_vars,
    ec_vars, ser_vars>>

(***************************************************************************)
(* enums.py                                                                *)
(***************************************************************************)
Encounters ==
  {"SAFE", "OVERTAKING_STAR", "OVERTAKING_PORT", "HEADON", "GIVEWAY", "STANDON"}

NonSafe == Encounters \ {"SAFE"}

(***************************************************************************)
(* Threshold sets.  The state machine takes its thresholds as constructor  *)
(* arguments; three configurations are explored: the defaults of           *)
(* encounter_classifier_dsm.__init__, the values colav_manager passes for  *)
(* the safety radius of run_leidarstein.py, and a configuration whose      *)
(* entry and exit regions overlap.                                         *)
(***************************************************************************)
SafetyRadiusM == 200

DsmDefaults ==
  [d_enter_up_cpa |-> 200, t_enter_up_cpa |-> 300, t_enter_low_cpa |-> 0,
   d_exit_low_cpa |-> 250, t_exit_low_cpa |-> 0, t_exit_up_cpa |-> 330]

ColavThresholds ==
  [d_enter_up_cpa |-> (SafetyRadiusM * 3) \div 2, t_enter_up_cpa |-> 600,
   t_enter_low_cpa |-> 0,
   d_exit_low_cpa |-> SafetyRadiusM * 2, t_exit_low_cpa |-> 0,
   t_exit_up_cpa |-> 650]

OverlappingThresholds ==
  [d_enter_up_cpa |-> 400, t_enter_up_cpa |-> 650, t_enter_low_cpa |-> 0,
   d_exit_low_cpa |-> 300, t_exit_low_cpa |-> 100, t_exit_up_cpa |-> 600]

ThresholdSets == {DsmDefaults, ColavThresholds, OverlappingThresholds}

\* Input values on, below and above every threshold of the sets above.
DVals == {150, 200, 225, 250, 299, 300, 350, 400, 450}
TVals == {-10, 0, 50, 100, 300, 315, 330, 500, 600, 625, 650, 700}

NoInput ==
  [encounter |-> "none", d_at_cpa |-> 0, t_2_cpa |-> 0, mid |-> "SAFE"]

(***************************************************************************)
(* encounter_classifier_dsm.update                                         *)
(***************************************************************************)
\* self._entry
EntryPredNoTimeWindow(th, d, t) ==
  d < th.d_enter_up_cpa

EntryPredNoLowerTime(th, d, t) ==
  (d < th.d_enter_up_cpa) /\ (t < th.t_enter_up_cpa)

EntryPred(th, d, t) ==
  (d < th.d_enter_up_cpa) /\ (t > th.t_enter_low_cpa /\ t < th.t_enter_up_cpa)

\* self._exit
ExitPredNoBand(th, d, t) ==
  (d >= th.d_enter_up_cpa) \/ (t < th.t_exit_low_cpa \/ t > th.t_exit_up_cpa)

ExitPred(th, d, t) ==
  (d >= th.d_exit_low_cpa) \/ (t < th.t_exit_low_cpa \/ t > th.t_exit_up_cpa)

\* guard_safe_to_ot_s, guard_safe_to_ot_p, guard_safe_to_head_on,
\* guard_safe_to_give_way, guard_safe_to_stand_on (x is the target state)
GuardSafeTo(x, encounter, entry, s) ==
  encounter = x /\ entry /\ s = "SAFE"

\* guard_any_to_safe
GuardAnyToSafe(encounter, exit, s) ==
  (encounter = "SAFE" \/ exit) /\ s # "SAFE"

\* One `if current_state is SAFE and guard_safe_to_x(): safe_to_x()` statement.
TryEnterAnyState(s, x, encounter, entry) ==
  IF encounter = x /\ entry THEN x ELSE s

TryEnter(s, x, encounter, entry) ==
  IF s = "SAFE" /\ GuardSafeTo(x, encounter, entry, s) THEN x ELSE s

\* One `if current_state is X: x_to_safe()` statement; the transition carries
\* cond="guard_any_to_safe" (a failing cond would raise TransitionNotAllowed,
\* which cannot happen inside `if self._exit`).
TryExit(s, x, encounter, exit) ==
  IF s = x /\ GuardAnyToSafe(encounter, exit, s) THEN "SAFE" ELSE s

\* `if self._entry:` and the five statements under it, in source order.
EntryBlock(s, encounter, entry) ==
  IF entry
    THEN TryEnter(
           TryEnter(
             TryEnter(
               TryEnter(
                 TryEnter(s, "OVERTAKING_STAR", encounter, entry),
                 "OVERTAKING_PORT", encounter, entry),
               "HEADON", encounter, entry),
             "GIVEWAY", encounter, entry),
           "STANDON", encounter, entry)
    ELSE s

\* `if self._exit:` and the five statements under it, in source order.
ExitBlock(s, encounter, exit) ==
  IF exit
    THEN TryExit(
           TryExit(
             TryExit(
               TryExit(
                 TryExit(s, "OVERTAKING_STAR", encounter, exit),
                 "OVERTAKING_PORT", encounter, exit),
               "HEADON", encounter, exit),
             "GIVEWAY", encounter, exit),
           "STANDON", encounter, exit)
    ELSE s

\* update(encounter, d_at_cpa, t_2_cpa): the state after the call.
DsmUpdate(th, s, encounter, d, t) ==
  ExitBlock(EntryBlock(s, encounter, EntryPred(th, d, t)),
            encounter, ExitPred(th, d, t))

(***************************************************************************)
(* SpecDsm: one state machine, any thresholds of ThresholdSets, any inputs *)
(***************************************************************************)
DsmIdle ==
  /\ dsm_th = DsmDefaults
  /\ current_state = "SAFE"
  /\ dsm_in = NoInput

DsmNew ==
  /\ dsm_th \in ThresholdSets
  /\ current_state = "SAFE"
  /\ dsm_in = NoInput

Update ==
  \E encounter \in Encounters, d \in DVals, t \in TVals :
    /\ current_state' = DsmUpdate(dsm_th, current_state, encounter, d, t)
    /\ dsm_in' = [encounter |-> encounter, d_at_cpa |-> d, t_2_cpa |-> t,
                  mid |-> EntryBlock(current_state, encounter,
                                     EntryPred(dsm_th, d, t))]
    /\ UNCHANGED dsm_th


(***************************************************************************)
(* arpa (ARPA.py).  Positions are metres east/north of own ship, speeds    *)
(* metres per second; a target record is the AIS_NED that _get_ais_data    *)
(* builds, own ship the RVG_NED that _get_gunnerus_data builds (p = 0).    *)
(* The geometries explored are those on which every square root and        *)
(* quotient of the computation is an integer, so that the integer          *)
(* arithmetic below is the arithmetic of the code.                         *)
(***************************************************************************)
SafetyRadiusTolNum == 3     \* safety_radius_tol = 1.5 = 3/2
SafetyRadiusTolDen == 2
MaxD2Cpa == 2000
GunnerusMmsi == 258342000
OtherMmsi == 257000001
SecondMmsi == 257000002

None == [present |-> FALSE]

Abs(x) == IF x < 0 THEN -x ELSE x

RECURSIVE SqrtSearch(_, _, _)
SqrtSearch(n, lo, hi) ==
  IF lo >= hi THEN lo
  ELSE LET mid == (lo + hi + 1) \div 2
       IN IF mid * mid <= n THEN SqrtSearch(n, mid, hi)
                            ELSE SqrtSearch(n, lo, mid - 1)

\* math.sqrt on the perfect squares the grid produces (floor otherwise)
Sqrt(n) == SqrtSearch(n, 0, IF n < 46340 THEN n ELSE 46340)

IsSquare(n) == n >= 0 /\ Sqrt(n) * Sqrt(n) = n

\* a / b for b # 0
Div(a, b) == IF b < 0 THEN (-a) \div (-b) ELSE a \div b

Divides(b, a) == b # 0 /\ a % Abs(b) = 0

\* The CPA record _get_cpa builds when the relative speed ur is not zero
CpaValues(gunn_data, a) ==
  LET urx == a.uo_x - gunn_data.ux
      ury == a.uo_y - gunn_data.uy
      ur == Sqrt(urx * urx + ury * ury)
      d_at_cpa == Abs(Div(a.po_x * ury - a.po_y * urx, ur))
      t_2_cpa == Div(-(a.po_x * urx + a.po_y * ury), ur * ur)
      x_at_cpa == 0 + gunn_data.ux * t_2_cpa
      y_at_cpa == 0 + gunn_data.uy * t_2_cpa
  IN [present |-> TRUE, d_at_cpa |-> d_at_cpa,
      d_2_cpa |-> Sqrt(x_at_cpa * x_at_cpa + y_at_cpa * y_at_cpa),
      t_2_cpa |-> t_2_cpa, x_at_cpa |-> x_at_cpa, y_at_cpa |-> y_at_cpa,
      o_x_at_cpa |-> a.po_x + t_2_cpa * a.uo_x,
      o_y_at_cpa |-> a.po_y + t_2_cpa * a.uo_y]

\* np.isclose(ur, 0) on the relative speed
RelativeSpeedIsZero(gunn_data, a) ==
  Sqrt((a.uo_x - gunn_data.ux) * (a.uo_x - gunn_data.ux)
       + (a.uo_y - gunn_data.uy) * (a.uo_y - gunn_data.uy)) = 0

\* _get_cpa: None when the relative speed is zero or d_2_cpa > max_d_2_cpa
GetCpaNoRangeGate(gunn_data, a) ==
  IF RelativeSpeedIsZero(gunn_data, a) THEN None
  ELSE CpaValues(gunn_data, a)

GetCpa(gunn_data, a) ==
  IF RelativeSpeedIsZero(gunn_data, a) THEN None
  ELSE IF CpaValues(gunn_data, a).d_2_cpa > MaxD2Cpa THEN None
  ELSE CpaValues(gunn_data, a)

\* The radicand of _get_safety_params, safety_radius^2 * |ur|^2 minus the
\* squared cross product of po and ur (the source writes it expanded).
Radicand(gunn_data, a) ==
  LET urx == a.uo_x - gunn_data.ux
      ury == a.uo_y - gunn_data.uy
      cross == a.po_x * ury - a.po_y * urx
  IN SafetyRadiusM * SafetyRadiusM * (urx * urx + ury * ury) - cross * cross

\* t_2_r_a and t_2_r_b of _get_safety_params: numerator and denominator
TimeToRadiusA(gunn_data, a) ==
  LET urx == a.uo_x - gunn_data.ux
      ury == a.uo_y - gunn_data.uy
  IN [num |-> -(SafetyRadiusM * SafetyRadiusM) + a.po_x * a.po_x
                + a.po_y * a.po_y,
      den |-> Sqrt(Radicand(gunn_data, a)) - a.po_x * urx - a.po_y * ury]

TimeToRadiusB(gunn_data, a) ==
  LET urx == a.uo_x - gunn_data.ux
      ury == a.uo_y - gunn_data.uy
  IN [num |-> -(-(SafetyRadiusM * SafetyRadiusM) + a.po_x * a.po_x
                + a.po_y * a.po_y),
      den |-> Sqrt(Radicand(gunn_data, a)) + a.po_x * urx + a.po_y * ury]

\* `if t_2_r_a > t_2_r_b: t_2_r = t_2_r_b else: t_2_r = t_2_r_a`.  t_2_r_b is
\* 0/0 = nan when the target is on the radius and closing along a line
\* through own ship; every comparison with nan is False.
SelectRoot(ta, tb) ==
  IF tb.den = 0 THEN Div(ta.num, ta.den)
  ELSE IF Div(ta.num, ta.den) > Div(tb.num, tb.den)
         THEN Div(tb.num, tb.den)
         ELSE Div(ta.num, ta.den)

\* _get_safety_params (called only with d_at_cpa < safety_radius, where the
\* relative speed is not zero)
GetSafetyParams(gunn_data, a) ==
  LET t_2_r == SelectRoot(TimeToRadiusA(gunn_data, a),
                          TimeToRadiusB(gunn_data, a))
  IN [t_2_r |-> t_2_r,
      t_x_at_r |-> a.po_x + t_2_r * a.uo_x,
      t_y_at_r |-> a.po_y + t_2_r * a.uo_y,
      x_at_r |-> 0 + t_2_r * gunn_data.ux,
      y_at_r |-> 0 + t_2_r * gunn_data.uy,
      d_2_r |-> Sqrt((t_2_r * gunn_data.ux) * (t_2_r * gunn_data.ux)
                     + (t_2_r * gunn_data.uy) * (t_2_r * gunn_data.uy))]

\* AIS_NED defaults of the fields _process_data fills in
NoSafetyParams ==
  [t_2_r |-> 0, t_x_at_r |-> 0, t_y_at_r |-> 0, x_at_r |-> 0, y_at_r |-> 0,
   d_2_r |-> 0]

\* is_within_tolerance_distance of _process_data
WithinToleranceNoTimeGate(cpa) ==
  /\ cpa.present
  /\ cpa.d_at_cpa * SafetyRadiusTolDen <= SafetyRadiusM * SafetyRadiusTolNum

WithinToleranceNoDistanceGate(cpa) ==
  /\ cpa.present /\ cpa.t_2_cpa >= 0

WithinTolerance(cpa) ==
  /\ cpa.present /\ cpa.t_2_cpa >= 0
  /\ cpa.d_at_cpa * SafetyRadiusTolDen <= SafetyRadiusM * SafetyRadiusTolNum

\* The record _process_data appends for one qualifying target
ArpaRecord(gunn_data, a) ==
  LET cpa == GetCpa(gunn_data, a)
      sp == IF cpa.d_at_cpa < SafetyRadiusM
              THEN GetSafetyParams(gunn_data, a) ELSE NoSafetyParams
  IN [mmsi |-> a.mmsi, po_x |-> a.po_x, po_y |-> a.po_y,
      uo_x |-> a.uo_x, uo_y |-> a.uo_y, cpa |-> TRUE,
      d_at_cpa |-> cpa.d_at_cpa, d_2_cpa |-> cpa.d_2_cpa,
      t_2_cpa |-> cpa.t_2_cpa, x_at_cpa |-> cpa.x_at_cpa,
      y_at_cpa |-> cpa.y_at_cpa, o_x_at_cpa |-> cpa.o_x_at_cpa,
      o_y_at_cpa |-> cpa.o_y_at_cpa,
      safety_params |-> cpa.d_at_cpa < SafetyRadiusM,
      t_2_r |-> sp.t_2_r, t_x_at_r |-> sp.t_x_at_r, t_y_at_r |-> sp.t_y_at_r,
      x_at_r |-> sp.x_at_r, y_at_r |-> sp.y_at_r, d_2_r |-> sp.d_2_r]

\* The targets of a snapshot that _process_data keeps
Qualifies(gunn_data, a) ==
  /\ a.mmsi # GunnerusMmsi
  /\ WithinTolerance(GetCpa(gunn_data, a))

\* _process_data: (gunn_data, processed_data); ais is the deep copy of the
\* AIS map, a function from its keys to target records.
ProcessData(gunn, ais) ==
  IF ~gunn.present
    THEN [gunn_data |-> None, processed_data |-> None]
    ELSE [gunn_data |-> gunn,
          processed_data |->
            [present |-> TRUE,
             records |-> {ArpaRecord(gunn, ais[k]) :
                            k \in {i \in DOMAIN ais :
                                     Qualifies(gunn, ais[i])}}]]

(***************************************************************************)
(* The grid of geometries                                                  *)
(***************************************************************************)
MaxPos == 12          \* positions reach MaxPos * 40 metres
Positions == {k * 40 : k \in -MaxPos..MaxPos}
OwnVelocities == {<<0, 0>>, <<0, 5>>, <<3, 4>>}
TargetVelocities ==
  {<<0, 0>>, <<0, 5>>, <<0, -5>>, <<0, 4>>, <<5, 5>>, <<3, 4>>, <<3, 0>>,
   <<-1, 5>>, <<0, 10>>}

GunnerusData == {[present |-> TRUE, ux |-> v[1], uy |-> v[2]] : v \in OwnVelocities}

Targets(mmsis) ==
  {[mmsi |-> m, po_x |-> x, po_y |-> y, uo_x |-> v[1], uo_y |-> v[2]] :
     m \in mmsis, x \in Positions, y \in Positions, v \in TargetVelocities}

\* Every square root and quotient that _process_data takes on (g, a) is exact.
Exact(g, a) ==
  LET urx == a.uo_x - g.ux
      ury == a.uo_y - g.uy
      ur2 == urx * urx + ury * ury
      cpa == CpaValues(g, a)
      ta == TimeToRadiusA(g, a)
      tb == TimeToRadiusB(g, a)
  IN \/ ur2 = 0
     \/ /\ IsSquare(ur2)
        /\ Divides(Sqrt(ur2), a.po_x * ury - a.po_y * urx)
        /\ Divides(ur2, a.po_x * urx + a.po_y * ury)
        /\ IsSquare(cpa.x_at_cpa * cpa.x_at_cpa + cpa.y_at_cpa * cpa.y_at_cpa)
        /\ \/ ~(cpa.d_at_cpa < SafetyRadiusM)
           \/ /\ IsSquare(Radicand(g, a))
              /\ Divides(ta.den, ta.num)
              /\ tb.den = 0 \/ Divides(tb.den, tb.num)
              /\ IsSquare(g.ux * g.ux + g.uy * g.uy)

(***************************************************************************)
(* SpecArpa: one cycle of one arpa instance on a one-target AIS map        *)
(***************************************************************************)
Pending == [gunn_data |-> None, processed_data |-> [present |-> FALSE, pending |-> TRUE]]

ArpaIdle ==
  /\ arpa_gunnerus_data = None
  /\ arpa_ais_data = <<>>
  /\ arpa_out = Pending

\* arpa.update_gunnerus_data
ArpaUpdateGunnerusData ==
  /\ arpa_out = Pending
  /\ arpa_gunnerus_data = None
  /\ \E g \in GunnerusData :
       /\ \A k \in DOMAIN arpa_ais_data : Exact(g, arpa_ais_data[k])
       /\ arpa_gunnerus_data' = g
  /\ UNCHANGED <<arpa_ais_data, arpa_out>>

\* arpa.update_ais_data
ArpaUpdateAisData ==
  /\ arpa_out = Pending
  /\ arpa_ais_data = <<>>
  /\ \E a \in Targets({GunnerusMmsi, OtherMmsi}) :
       /\ arpa_gunnerus_data.present => Exact(arpa_gunnerus_data, a)
       /\ arpa_ais_data' = <<a>>
  /\ UNCHANGED <<arpa_gunnerus_data, arpa_out>>

\* arpa.get_ARPA_parameters
GetArpaParameters ==
  /\ arpa_out = Pending
  /\ arpa_out' = ProcessData(arpa_gunnerus_data, arpa_ais_data)
  /\ UNCHANGED <<arpa_gunnerus_data, arpa_ais_data>>

NextArpa ==
  \/ ArpaUpdateGunnerusData /\ UNCHANGED <<ext_vars, dsm_vars, colav_vars>>
  \/ ArpaUpdateAisData /\ UNCHANGED <<ext_vars, dsm_vars, colav_vars>>
  \/ GetArpaParameters /\ UNCHANGED <<ext_vars, dsm_vars, colav_vars>>

(***************************************************************************)
(* colav_manager (colav_manager.py) and the main loop (run_leidarstein.py) *)
(***************************************************************************)
MaxCycles == 2        \* update cycles the main loop may start
MaxTime == 2          \* the clock stops here
UpdateInterval == 1   \* update_interval, the unit of the clock

Keys == {OtherMmsi, SecondMmsi}

\* colav_manager._gunnerus_data = {} : a dict, which has no attributes
EmptyDict == [present |-> TRUE, empty |-> TRUE]

ColavOwnShip == [present |-> TRUE, ux |-> 0, uy |-> 5]

\* po_x, po_y, uo_x, uo_y of the AIS reports the ingress thread delivers:
\* head-on from 400 m, passing 280 m abeam, passing 400 m abeam.
ColavGeometries ==
  {<<0, 400, 0, -5>>, <<280, 400, 0, -5>>, <<400, 400, 0, -5>>}

\* The classes classify_encounter is taken to return for these reports
ColavClasses == {"SAFE", "HEADON", "GIVEWAY"}

ColavTargets(k) ==
  {[mmsi |-> k, po_x |-> g[1], po_y |-> g[2], uo_x |-> g[3], uo_y |-> g[4]] :
     g \in ColavGeometries}

ColavAisMessages ==
  {a \in UNION {ColavTargets(k) : k \in Keys} : Exact(ColavOwnShip, a)}

PutAlone(f, k, v) == [x \in {k} |-> v]

Put(f, k, v) == [x \in DOMAIN f \cup {k} |-> IF x = k THEN v ELSE f[x]]

\* The step that follows each step of an update cycle: the statement order of
\* colav_manager.update and of the body of the main loop.
AfterSendingBeforeClassifying(step) ==
  CASE step = "snapshot" -> "arpa"
    [] step = "arpa" -> "send_arpa"
    [] step = "send_arpa" -> "send_encounters"
    [] step = "send_encounters" -> "encounter_classifiers"
    [] step = "encounter_classifiers" -> "dispatch_cbf"
    [] step = "dispatch_cbf" -> "get"
    [] step = "get" -> "join"
    [] step = "join" -> "send_cbf"
    [] step = "send_cbf" -> "loop"

After(step) ==
  CASE step = "snapshot" -> "arpa"
    [] step = "arpa" -> "encounter_classifiers"
    [] step = "encounter_classifiers" -> "send_arpa"
    [] step = "send_arpa" -> "send_encounters"
    [] step = "send_encounters" -> "dispatch_cbf"
    [] step = "dispatch_cbf" -> "get"
    [] step = "get" -> "join"
    [] step = "join" -> "send_cbf"
    [] step = "send_cbf" -> "loop"

\* rvg_leidarstein_websocket.send: ws.send on the one connection
SendFirst(sent, msg) == <<msg>> \o sent

Send(sent, msg) == Append(sent, msg)

DataIsAvailableWithoutTargets(out) ==
  /\ out.processed_data.present
  /\ out.gunn_data.present

\* data_is_available = arpa_data and arpa_gunn_data
DataIsAvailable(out) ==
  /\ out.processed_data.present
  /\ out.processed_data.records # {}
  /\ out.gunn_data.present

\* The arguments get_encounter_type passes to the state machine for a record
DsmDistance(r) == IF r.safety_params THEN SafetyRadiusM ELSE r.d_at_cpa
DsmTime(r) == IF r.safety_params THEN r.t_2_r ELSE r.t_2_cpa

\* The last loop of _update_encounter_classifiers:
\*   for key in ais_keys: if key not in classifiers: del classifiers[key]
DeleteUnneeded(classifiers, ais_keys) ==
  [k \in DOMAIN classifiers \ {key \in ais_keys : key \notin DOMAIN classifiers}
     |-> classifiers[k]]

\* _update_encounter_classifiers; class_of[mmsi] is what classify_encounter
\* returns for the record of mmsi
UpdateEncounterClassifiers(classifiers, records, class_of) ==
  LET ais_keys == {r.mmsi : r \in records}
      rec(m) == CHOOSE r \in records : r.mmsi = m
      before(m) == IF m \in DOMAIN classifiers THEN classifiers[m] ELSE "SAFE"
      updated ==
        [m \in DOMAIN classifiers \cup ais_keys |->
           IF m \in ais_keys
             THEN DsmUpdate(ColavThresholds, before(m), class_of[m],
                            DsmDistance(rec(m)), DsmTime(rec(m)))
             ELSE classifiers[m]]
  IN DeleteUnneeded(updated, ais_keys)

\* Process.join returns once the process has ended
JoinReturnsAtOnce(p) == TRUE

JoinReturns(p) == p \in {"exited", "failed"}

Cycles == 1..MaxCycles

\* The map i holds under key k what the map m holds
Agree(i, k, m) == k \in DOMAIN i /\ i[k] = m[k]

\* No deep copy of the AIS map is in progress.  todo: the keys still to be
\* copied; used: the size of the dict when the iteration began; copy: the
\* local ais_data of _process_data, the copy under construction; written:
\* the keys written since; instants: the values the map has had since the
\* copy began with which the items copied so far agree.
NoCopy ==
  [todo |-> <<>>, used |-> 0, copy |-> <<>>, written |-> {}, instants |-> {}]

ColavInit ==
  /\ gunnerus_data = EmptyDict
  /\ ais_data = <<>>
  /\ ais_order = <<>>
  /\ deep_copy = NoCopy
  /\ encounter_classifiers = <<>>
  /\ running = FALSE
  /\ pc = "start"
  /\ now = 0
  /\ cycle = 0
  /\ start = 0
  /\ cbf_process = [c \in Cycles |-> "none"]
  /\ q = <<>>
  /\ ret_var = 0
  /\ relay = <<>>
  /\ sent_data = <<>>
  /\ trace = <<>>

\* ---- the ingress thread (simulation_server._send) ----
\* colav_manager.update_gunnerus_data
UpdateGunnerusData ==
  /\ gunnerus_data' = ColavOwnShip
  /\ gunnerus_data # ColavOwnShip
  /\ UNCHANGED <<start, ais_data, ais_order, deep_copy,
                 encounter_classifiers, running, pc, now, cycle,
                 cbf_process, q, ret_var, relay, sent_data, trace>>
  /\ UNCHANGED <<ext_vars, dsm_vars, arpa_vars>>

\* colav_manager.update_ais_data: self._ais_data[message_id] = data, with no
\* lock.  For a write that falls inside the deep copy of the main thread the
\* value the map takes is recorded; at most one report per vessel arrives
\* while one deep copy runs.
UpdateAisData ==
  \E a \in ColavAisMessages :
    /\ pc = "deepcopy" => a.mmsi \notin deep_copy.written
    /\ ais_data' = Put(ais_data, a.mmsi, a)
    /\ ais_order' = IF a.mmsi \in DOMAIN ais_data
                       THEN ais_order ELSE Append(ais_order, a.mmsi)
    /\ deep_copy' = IF pc = "deepcopy"
                       THEN [deep_copy EXCEPT
                               !.written = @ \cup {a.mmsi},
                               !.instants =
                                 @ \cup {m \in {ais_data'} :
                                           \A k \in DOMAIN deep_copy.copy :
                                             m[k] = deep_copy.copy[k]}]
                       ELSE deep_copy
  /\ UNCHANGED <<start, gunnerus_data, encounter_classifiers, running, pc, now, cycle,
                 cbf_process, q, ret_var, relay, sent_data, trace>>
  /\ UNCHANGED <<ext_vars, dsm_vars, arpa_vars>>

\* ---- the main thread ----
\* rvg_data.start(); colav_manager.start()
Start ==
  /\ pc = "start"
  /\ running' = TRUE
  /\ pc' = "loop"
  /\ UNCHANGED <<start, gunnerus_data, ais_data, ais_order, deep_copy,
                 encounter_classifiers, now, cycle,
                 cbf_process, q, ret_var, relay, sent_data, trace>>
  /\ UNCHANGED <<ext_vars, dsm_vars, arpa_vars>>

\* Time passes while the main thread sleeps or blocks.
Tick ==
  /\ pc \in {"loop", "get", "join"}
  /\ now < MaxTime
  /\ now' = now + 1
  /\ UNCHANGED <<start, gunnerus_data, ais_data, ais_order, deep_copy,
                 encounter_classifiers, running, pc,
                 cycle, cbf_process, q, ret_var, relay, sent_data, trace>>
  /\ UNCHANGED <<ext_vars, dsm_vars, arpa_vars>>

\* `if time() > colav_manager._timeout and colav_manager._running:`
\* (_timeout is time of construction + update_interval and is never reset)
BeginUpdate ==
  /\ pc = "loop"
  /\ now > 0 + UpdateInterval /\ running
  /\ cycle < MaxCycles
  /\ cycle' = cycle + 1
  /\ start' = now
  /\ pc' = "snapshot"
  /\ trace' = <<>>
  /\ arpa_out' = Pending
  /\ UNCHANGED <<gunnerus_data, ais_data, ais_order, deep_copy,
                 encounter_classifiers, running, now,
                 cbf_process, q, ret_var, relay, sent_data>>
  /\ UNCHANGED <<ext_vars, dsm_vars, arpa_gunnerus_data, arpa_ais_data>>

\* colav_manager.update up to the start of copy.deepcopy(self._ais_data) in
\* _process_data; _get_gunnerus_data reads attributes, which the initial {}
\* does not have.  The copy iterates over the items of the dict.
Snapshot ==
  /\ pc = "snapshot"
  /\ IF gunnerus_data = EmptyDict
       THEN /\ pc' = "crashed"
            /\ UNCHANGED <<arpa_gunnerus_data, deep_copy>>
       ELSE /\ arpa_gunnerus_data' = gunnerus_data
            /\ deep_copy' = [todo |-> ais_order, used |-> Len(ais_order),
                             copy |-> <<>>, written |-> {},
                             instants |-> {ais_data}]
            /\ pc' = "deepcopy"
  /\ UNCHANGED <<start, gunnerus_data, ais_data, ais_order,
                 encounter_classifiers, running, now, cycle, cbf_process, q,
                 ret_var, relay, sent_data, trace>>
  /\ UNCHANGED <<ext_vars, dsm_vars, arpa_ais_data, arpa_out>>

\* One step of the iteration of copy.deepcopy over the dict: RuntimeError
\* ("dictionary changed size during iteration") if a key was added since the
\* iteration began, else the next item is copied as it is now, or the copy
\* is complete.
DeepCopyItem ==
  /\ pc = "deepcopy"
  /\ IF Len(ais_order) # deep_copy.used
       THEN /\ pc' = "crashed"
            /\ UNCHANGED <<deep_copy, trace>>
       ELSE IF deep_copy.todo = <<>>
         THEN /\ pc' = After("snapshot")
              /\ trace' = Append(trace, "snapshot")
              /\ UNCHANGED deep_copy
         ELSE /\ deep_copy' =
                   [deep_copy EXCEPT
                      !.todo = Tail(@),
                      !.copy = Put(@, Head(deep_copy.todo),
                                   ais_data[Head(deep_copy.todo)]),
                      !.instants =
                        {i \in @ : Agree(i, Head(deep_copy.todo), ais_data)}]
              /\ UNCHANGED <<pc, trace>>
  /\ UNCHANGED <<start, gunnerus_data, ais_data, ais_order,
                 encounter_classifiers, running, now, cycle, cbf_process, q,
                 ret_var, relay, sent_data>>
  /\ UNCHANGED <<ext_vars, dsm_vars, arpa_vars>>

\* the rest of _process_data, and `if data_is_available:`
Arpa ==
  /\ pc = "arpa"
  /\ LET out == ProcessData(arpa_gunnerus_data, deep_copy.copy)
     IN /\ arpa_out' = IF DataIsAvailable(out) THEN out ELSE Pending
        /\ pc' = IF DataIsAvailable(out) THEN After("arpa") ELSE "loop"
  /\ trace' = Append(trace, "arpa")
  /\ deep_copy' = NoCopy
  /\ UNCHANGED <<start, gunnerus_data, ais_data, ais_order, encounter_classifiers,
                 running, now, cycle, cbf_process, q, ret_var, relay,
                 sent_data>>
  /\ UNCHANGED <<ext_vars, dsm_vars, arpa_gunnerus_data, arpa_ais_data>>

\* _update_encounter_classifiers; the class classify_encounter returns for
\* each target is left open among ColavClasses
ClassifyEncounters ==
  /\ pc = "encounter_classifiers"
  /\ LET records == arpa_out.processed_data.records
     IN \E class_of \in [{r.mmsi : r \in records} -> ColavClasses] :
          encounter_classifiers' =
            UpdateEncounterClassifiers(encounter_classifiers, records, class_of)
  /\ trace' = Append(trace, "encounter_classifiers")
  /\ pc' = After("encounter_classifiers")
  /\ UNCHANGED <<start, gunnerus_data, ais_data, ais_order, deep_copy, running, now,
                 cycle, cbf_process, q, ret_var, relay, sent_data>>
  /\ UNCHANGED <<ext_vars, dsm_vars, arpa_vars>>

\* websocket.send(_compose_colav_msg(converted_arpa_data, "arpa"))
SendArpa ==
  /\ pc = "send_arpa"
  /\ relay' = Send(relay, [message_id |-> "arpa", cycle |-> cycle])
  /\ sent_data' = [m \in {r.mmsi : r \in arpa_out.processed_data.records}
                     |-> "record"]
  /\ trace' = Append(trace, "send_arpa")
  /\ pc' = After("send_arpa")
  /\ UNCHANGED <<start, gunnerus_data, ais_data, ais_order, deep_copy,
                 encounter_classifiers, running, now,
                 cycle, cbf_process, q, ret_var>>
  /\ UNCHANGED <<ext_vars, dsm_vars, arpa_vars>>

\* websocket.send(compose_encounters_message())
SendEncounters ==
  /\ pc = "send_encounters"
  /\ relay' = Send(relay, [message_id |-> "encounters", cycle |-> cycle])
  /\ sent_data' = encounter_classifiers
  /\ trace' = Append(trace, "send_encounters")
  /\ pc' = After("send_encounters")
  /\ UNCHANGED <<start, gunnerus_data, ais_data, ais_order, deep_copy,
                 encounter_classifiers, running, now,
                 cycle, cbf_process, q, ret_var>>
  /\ UNCHANGED <<ext_vars, dsm_vars, arpa_vars>>

\* augment_arpa_data, update_cbf_data, sort_cbf_data, cbf_process.start();
\* update() has returned and its local arpa_data is gone
DispatchCbf ==
  /\ pc = "dispatch_cbf"
  /\ cbf_process' = [cbf_process EXCEPT ![cycle] = "running"]
  /\ arpa_out' = Pending
  /\ trace' = Append(trace, "dispatch_cbf")
  /\ pc' = After("dispatch_cbf")
  /\ UNCHANGED <<start, gunnerus_data, ais_data, ais_order, deep_copy,
                 encounter_classifiers, running, now,
                 cycle, q, ret_var, relay, sent_data>>
  /\ UNCHANGED <<ext_vars, dsm_vars, arpa_gunnerus_data, arpa_ais_data>>

\* ret_var = q.get(): blocks while the queue is empty
QGet ==
  /\ pc = "get"
  /\ q # <<>>
  /\ ret_var' = Head(q)
  /\ q' = Tail(q)
  /\ pc' = After("get")
  /\ UNCHANGED <<start, gunnerus_data, ais_data, ais_order, deep_copy,
                 encounter_classifiers, running, now,
                 cycle, cbf_process, relay, sent_data, trace>>
  /\ UNCHANGED <<ext_vars, dsm_vars, arpa_vars>>

\* cbf_process.join()
Join ==
  /\ pc = "join"
  /\ JoinReturns(cbf_process[cycle])
  /\ pc' = After("join")
  /\ UNCHANGED <<start, gunnerus_data, ais_data, ais_order, deep_copy,
                 encounter_classifiers, running, now,
                 cycle, cbf_process, q, ret_var, relay, sent_data, trace>>
  /\ UNCHANGED <<ext_vars, dsm_vars, arpa_vars>>

\* colav_manager.send_cbf_data(ret_var), then sleep(0.1)
SendCbf ==
  /\ pc = "send_cbf"
  /\ relay' = Send(relay, [message_id |-> "cbf", cycle |-> ret_var])
  /\ sent_data' = <<>>
  /\ trace' = Append(trace, "send_cbf")
  /\ pc' = After("send_cbf")
  /\ UNCHANGED <<start, gunnerus_data, ais_data, ais_order, deep_copy,
                 encounter_classifiers, running, now,
                 cycle, cbf_process, q, ret_var>>
  /\ UNCHANGED <<ext_vars, dsm_vars, arpa_vars>>

\* ---- the CBF worker process (cbf_poly._process_data) ----
\* ret_var.put(cbf_data)
WorkerPut ==
  /\ \E c \in Cycles :
       /\ cbf_process[c] = "running"
       /\ cbf_process' = [cbf_process EXCEPT ![c] = "delivered"]
       /\ q' = Append(q, c)
  /\ UNCHANGED <<start, gunnerus_data, ais_data, ais_order, deep_copy,
                 encounter_classifiers, running, pc,
                 now, cycle, ret_var, relay, sent_data, trace>>
  /\ UNCHANGED <<ext_vars, dsm_vars, arpa_vars>>

\* return cbf_data: the process ends
WorkerReturn ==
  /\ \E c \in Cycles :
       /\ cbf_process[c] = "delivered"
       /\ cbf_process' = [cbf_process EXCEPT ![c] = "exited"]
  /\ UNCHANGED <<start, gunnerus_data, ais_data, ais_order, deep_copy,
                 encounter_classifiers, running, pc,
                 now, cycle, q, ret_var, relay, sent_data, trace>>
  /\ UNCHANGED <<ext_vars, dsm_vars, arpa_vars>>

\* an exception in the rollout: the process ends without a put
WorkerRaise ==
  /\ \E c \in Cycles :
       /\ cbf_process[c] = "running"
       /\ cbf_process' = [cbf_process EXCEPT ![c] = "failed"]
  /\ UNCHANGED <<start, gunnerus_data, ais_data, ais_order, deep_copy,
                 encounter_classifiers, running, pc,
                 now, cycle, q, ret_var, relay, sent_data, trace>>
  /\ UNCHANGED <<ext_vars, dsm_vars, arpa_vars>>

Next ==
  \/ UpdateGunnerusData
  \/ UpdateAisData
  \/ Start
  \/ Tick
  \/ BeginUpdate
  \/ Snapshot
  \/ DeepCopyItem
  \/ Arpa
  \/ ClassifyEncounters
  \/ SendArpa
  \/ SendEncounters
  \/ DispatchCbf
  \/ QGet
  \/ Join
  \/ SendCbf
  \/ WorkerPut
  \/ WorkerReturn
  \/ WorkerRaise

\* colav_manager.stop(), called from any thread once the coordinator runs:
\* self._running = False; self._cbf.stop() sets _running of the cbf_poly
\* object of this process.  The worker is another process with its own copy
\* of that object (and _process_data sets its _running = True on entry), the
\* main thread stays where it is, and the websocket is not touched.
ColavStop ==
  /\ pc # "start"
  /\ running
  /\ running' = FALSE
  /\ UNCHANGED <<start, gunnerus_data, ais_data, ais_order, deep_copy,
                 encounter_classifiers, pc, now, cycle,
                 cbf_process, q, ret_var, relay, sent_data, trace>>
  /\ UNCHANGED <<ext_vars, dsm_vars, arpa_vars>>

NextStop ==
  \/ Next
  \/ ColavStop

(***************************************************************************)
(* The CBF domain table: colav_manager.cbf_domains, the table the          *)
(* websocket thread receives, and the file cbf_domains.json                *)
(***************************************************************************)
\* one entry of the table as __init__ makes it, and one with values
EmptyDomain == [d |-> <<>>, z1 |-> <<>>, z2 |-> <<>>]

SomeDomain == [d |-> <<SafetyRadiusM>>, z1 |-> <<0>>, z2 |-> <<0>>]

\* colav_manager.__init__: self.cbf_domains = {...}
DefaultDomains == [e \in Encounters |-> EmptyDomain]

Complete(table) == Encounters \subseteq DOMAIN table

\* The tables a client sends: all six classes, HEADON and GIVEWAY with or
\* without values, and the same tables without the class STANDON.
CompleteTables ==
  {[e \in Encounters |->
      IF e = "HEADON" THEN h ELSE IF e = "GIVEWAY" THEN g ELSE EmptyDomain] :
     h \in {EmptyDomain, SomeDomain}, g \in {EmptyDomain, SomeDomain}}

IncompleteTables ==
  {[e \in Encounters \ {"STANDON"} |-> t[e]] : t \in CompleteTables}

Tables == CompleteTables \cup IncompleteTables

Val(table) == [present |-> TRUE, val |-> table]

\* the file after json.dumps(table) has been written and the file closed,
\* and the file as open(..., "w") leaves it
Dumps(table) == [complete |-> TRUE, table |-> table]

Truncated == [complete |-> FALSE]

\* load_cbf_domain_data: the keys of the file replace those of the table
LoadCbfDomainData(table, file) ==
  [e \in DOMAIN table \cup DOMAIN file.table |->
     IF e \in DOMAIN file.table THEN file.table[e] ELSE table[e]]

\* `self.cbf_domains == self.websocket.received_data["cbf_domains"]`
SameTableByKeys(mem, rec) == DOMAIN mem = DOMAIN rec

SameTable(mem, rec) == mem = rec

\* no cbf_domains message has been received; the file holds the defaults
DomainsIdle ==
  /\ received_data = None
  /\ cbf_domains = DefaultDomains
  /\ cbf_domains_json = Dumps(DefaultDomains)
  /\ dom_pc = "idle"
  /\ handled = None

\* colav_manager.__init__ with a file an earlier run has left: any table a
\* client has sent (update_cbf_domain_data writes what it receives)
DomainsNew ==
  /\ received_data = None
  /\ cbf_domains_json \in {Dumps(t) : t \in Tables}
  /\ cbf_domains = LoadCbfDomainData(DefaultDomains, cbf_domains_json)
  /\ dom_pc = "idle"
  /\ handled = None

\* rvg_leidarstein_websocket.start, one "datain" message with message_id
\* "cbf_domains": self.received_data[msg_id] = val
WebsocketReceive ==
  /\ dom_pc # "stopped"
  /\ \E t \in Tables : received_data' = Val(t)
  /\ UNCHANGED <<cbf_domains, cbf_domains_json, dom_pc, handled>>

\* update_cbf_domain_data up to open("cbf_domains.json", "w"), which
\* truncates the file
UpdateCbfDomainData ==
  /\ dom_pc = "idle"
  /\ handled' = received_data
  /\ IF received_data = None
       THEN UNCHANGED <<cbf_domains, cbf_domains_json, dom_pc>>
       ELSE IF SameTable(cbf_domains, received_data.val)
         THEN UNCHANGED <<cbf_domains, cbf_domains_json, dom_pc>>
         ELSE /\ cbf_domains' = received_data.val
              /\ cbf_domains_json' = Truncated
              /\ dom_pc' = "write"
  /\ UNCHANGED received_data

\* outfile.write(json_object) and the end of the with block
WriteJson ==
  /\ dom_pc = "write"
  /\ cbf_domains_json' = Dumps(cbf_domains)
  /\ dom_pc' = "idle"
  /\ UNCHANGED <<received_data, cbf_domains, handled>>

\* the process stops (it is killed, or the machine goes down)
Stop ==
  /\ dom_pc # "stopped"
  /\ dom_pc' = "stopped"
  /\ UNCHANGED <<received_data, cbf_domains, cbf_domains_json, handled>>

NextDomains ==
  \/ WebsocketReceive /\ UNCHANGED not_dom_vars
  \/ UpdateCbfDomainData /\ UNCHANGED not_dom_vars
  \/ WriteJson /\ UNCHANGED not_dom_vars
  \/ Stop /\ UNCHANGED not_dom_vars

(***************************************************************************)
(* simulation_transform.deg_2_dec and dec_2_deg.  A coordinate is an       *)
(* integer number of 1/MinuteParts arc-minute: a DDM value ddmm.mm is      *)
(* held as ddmm.mm * MinuteParts, decimal degrees d as d * 60 * MinuteParts,*)
(* so that both functions are exact.                                       *)
(***************************************************************************)
MinuteParts == 2

MaxDeg == 2

\* math.trunc(a / b) and int(a / b), b > 0: towards zero
Trunc(a, b) == IF a < 0 THEN -((-a) \div b) ELSE a \div b

\* deg_2_dec: `dir = 1` replaces the argument, so the test for "S" and "W"
\* that follows compares 1 with the two letters and never holds
Deg2Dec(coord, dir) ==
  LET dir_1 == 1
      deg == Trunc(coord, 100 * MinuteParts)
      dec == coord - 100 * MinuteParts * deg
  IN  dir_1 * (deg * 60 * MinuteParts + dec)

\* dec_2_deg as it would be if it returned the magnitude with the letter
Dec2DegMagnitude(coord, direction) ==
  LET dir == IF direction = "lon"
               THEN (IF coord < 0 THEN "W" ELSE "E")
               ELSE (IF coord < 0 THEN "S" ELSE "N")
      deg == Trunc(Abs(coord), 60 * MinuteParts)
  IN  <<deg * 100 * MinuteParts + (Abs(coord) - deg * 60 * MinuteParts), dir>>

\* dec_2_deg: the pair (deg, dir)
Dec2Deg(coord, direction) ==
  LET dir == IF direction = "lon"
               THEN (IF coord < 0 THEN "W" ELSE "E")
               ELSE (IF coord < 0 THEN "S" ELSE "N")
      deg == Trunc(coord, 60 * MinuteParts)
  IN  <<deg * 100 * MinuteParts + (coord - deg * 60 * MinuteParts), dir>>

\* positive DDM values, minutes below 60, as a GPRMC sentence carries them
DdmCoords ==
  {d * 100 * MinuteParts + mp :
     d \in 0..MaxDeg, mp \in 0..(60 * MinuteParts - 1)} \ {0}

Directions == {"N", "S", "E", "W"}

DecCoords == -(MaxDeg * 60 * MinuteParts)..(MaxDeg * 60 * MinuteParts)

Call(fn, coord, dir) ==
  [fn |-> fn, coord |-> coord, dir |-> dir, out |-> None, origin |-> None]

TransformIdle == transform = Call("none", 0, "")

TransformNew ==
  transform \in
    {Call("deg_2_dec", c, d) : c \in DdmCoords, d \in Directions}
      \cup {Call("dec_2_deg", c, d) : c \in DecCoords, d \in {"lon", "lat"}}

CallDeg2Dec ==
  /\ transform.fn = "deg_2_dec"
  /\ transform.out = None
  /\ transform' =
       [transform EXCEPT !.out = Val(Deg2Dec(transform.coord, transform.dir))]

CallDec2Deg ==
  /\ transform.fn = "dec_2_deg"
  /\ transform.out = None
  /\ transform' =
       [transform EXCEPT !.out = Val(Dec2Deg(transform.coord, transform.dir))]

\* the pair dec_2_deg returned becomes the arguments of deg_2_dec
FeedBack ==
  /\ transform.fn = "dec_2_deg"
  /\ transform.out # None
  /\ transform' =
       [fn |-> "deg_2_dec", coord |-> transform.out.val[1],
        dir |-> transform.out.val[2], out |-> None,
        origin |-> Val(transform.coord)]

NextTransform ==
  \/ CallDeg2Dec /\ UNCHANGED not_tf_vars
  \/ CallDec2Deg /\ UNCHANGED not_tf_vars
  \/ FeedBack /\ UNCHANGED not_tf_vars

(***************************************************************************)
(* simulation_server._set_history: the histories kept for each AIS track.  *)
(* The k-th position report of a track carries lon = lat = k and the c-th  *)
(* report with a course carries course = c, so that every sample of a      *)
(* history tells its age.  pos_history and filtered_course, which the      *)
(* low-pass filter computes from the histories, are left out.              *)
(***************************************************************************)
AisHistoryLen == 30

MaxMsgs == 32

Last(h) == h[Len(h)]

\* .pop(-1), the other end of the list
EvictNewest(h) ==
  IF Len(h) > AisHistoryLen THEN SubSeq(h, 1, Len(h) - 1) ELSE h

\* `if len(history) > self.ais_history_len: history.pop(0)`
Evict(h) == IF Len(h) > AisHistoryLen THEN Tail(h) ELSE h

\* number of position reports the track has sent so far
MsgCount(id) ==
  IF id \in DOMAIN ais_history THEN Last(ais_history[id].lon_history) ELSE 0

\* the next AIS position report of track id, with or without a course
AisMsg(id, has_course) ==
  [message_id |-> id,
   lon |-> MsgCount(id) + 1,
   lat |-> MsgCount(id) + 1,
   has_course |-> has_course,
   course |-> IF id \in DOMAIN ais_history
                   /\ ais_history[id].course_history # <<>>
                THEN Last(ais_history[id].course_history) + 1
                ELSE 1]

\* the branch `if message_id in self.ais_history.keys()`: the entry after it
\* (a report with a course for a track whose first report had none finds no
\* "course_history" key: KeyError, after lon and lat have been appended)
KeyError(h, msg) == msg.has_course /\ ~h.course_key

KnownTrack(h, msg) ==
  LET lon_1 == Append(h.lon_history, msg.lon)
      lat_1 == Append(h.lat_history, msg.lat)
  IN  IF KeyError(h, msg)
        THEN [h EXCEPT !.lon_history = lon_1, !.lat_history = lat_1]
        ELSE [h EXCEPT
                !.lon_history = Evict(lon_1),
                !.lat_history = Evict(lat_1),
                !.course_history =
                  IF msg.has_course THEN Evict(Append(@, msg.course)) ELSE @]

\* the else branch: the first report of a track
NewTrack(msg) ==
  [lon_history |-> <<msg.lon>>,
   lat_history |-> <<msg.lat>>,
   course_key |-> msg.has_course,
   course_history |-> IF msg.has_course THEN <<msg.course>> ELSE <<>>]

SimIdle ==
  /\ ais_history = <<>>
  /\ sim_msg = None
  /\ sim_pc = "running"

\* _set_history(msg) for an "!AI" message that has lat and lon; an exception
\* ends the thread of simulation_server.start, which catches none
SetHistory ==
  /\ sim_pc = "running"
  /\ MsgCount(OtherMmsi) + MsgCount(SecondMmsi) < MaxMsgs
  /\ \E id \in Keys, has_course \in BOOLEAN :
       LET msg == AisMsg(id, has_course)
       IN  /\ sim_msg' = Val(msg)
           /\ IF id \in DOMAIN ais_history
                THEN /\ ais_history' =
                          Put(ais_history, id,
                              KnownTrack(ais_history[id], msg))
                     /\ sim_pc' = IF KeyError(ais_history[id], msg)
                                    THEN "crashed" ELSE "running"
                ELSE /\ ais_history' = Put(ais_history, id, NewTrack(msg))
                     /\ sim_pc' = "running"

\* clear_ais_history
ClearAisHistory ==
  /\ sim_pc = "running"
  /\ ais_history # <<>>
  /\ ais_history' = <<>>
  /\ sim_msg' = None
  /\ UNCHANGED sim_pc

NextSim ==
  \/ SetHistory /\ UNCHANGED not_sim_vars
  \/ ClearAisHistory /\ UNCHANGED not_sim_vars

(***************************************************************************)
(* The CBF predictor: cbf_poly.__init__ -> cbf_4dof.__init__ ->            *)
(* cbf.__init__, and the trajectory of cbf_poly._process_data.  Times are  *)
(* in seconds, time steps in tenths of a second.                           *)
(***************************************************************************)
PredictionT == 300

SuperTTot == 600

SuperDtTenths == 2

MaxTTotMinutes == 8

\* cbf.__init__: self._hist_len = int(t_tot / dt)
HistLen(t_tot, dt) == Trunc(10 * t_tot, dt)

\* cbf_4dof.__init__: super().__init__(..., dt=0.2, ..., t_tot=600, ...),
\* whatever dt and t_tot it was given; then self.dt = dt
Cbf4dofInit(t_tot, dt) ==
  [t_tot |-> t_tot, dt |-> dt, constructed |-> TRUE,
   _t_tot |-> SuperTTot, _dt |-> SuperDtTenths,
   _hist_len |-> HistLen(SuperTTot, SuperDtTenths)]

\* the values cbf_poly is constructed with: t_tot = prediction_t
TTots == {PredictionT, SuperTTot} \cup {60 * k : k \in 1..MaxTTotMinutes}

Dts == {1, 2, 5, 10}

NotConstructed(t_tot, dt) ==
  [t_tot |-> t_tot, dt |-> dt, constructed |-> FALSE,
   _t_tot |-> 0, _dt |-> 0, _hist_len |-> 0]

CbfIdle ==
  /\ cbf_predictor = NotConstructed(PredictionT, SuperDtTenths)
  /\ hist_p = None

CbfNew ==
  /\ cbf_predictor \in {NotConstructed(t, d) : t \in TTots, d \in Dts}
  /\ hist_p = None

\* cbf_poly.__init__ passes its arguments on to cbf_4dof.__init__
CbfPolyInit ==
  /\ ~cbf_predictor.constructed
  /\ cbf_predictor' = Cbf4dofInit(cbf_predictor.t_tot, cbf_predictor.dt)
  /\ UNCHANGED hist_p

\* cbf_poly._process_data: hist_p = np.zeros((2, self._hist_len)), one
\* column filled by each turn of `for t in range(self._hist_len)`
CbfProcessData ==
  /\ cbf_predictor.constructed
  /\ hist_p = None
  /\ hist_p' = Val(cbf_predictor._hist_len)
  /\ UNCHANGED cbf_predictor

NextCbf ==
  \/ CbfPolyInit /\ UNCHANGED not_cbf_vars
  \/ CbfProcessData /\ UNCHANGED not_cbf_vars

(***************************************************************************)
(* simulation_server._send for GPRMC and AIS messages.  Positions are in   *)
(* tenths of a geodetic degree.  While a track has fewer than 15 samples   *)
(* _lp_filter_data returns None and the filtered course is the course of   *)
(* the message, so the field `smoothed` alone tells whether _set_history   *)
(* has put its course into the message.                                    *)
(***************************************************************************)
DistanceFilter == 10

MaxSent == 3

SendIdle ==
  /\ ws_enable = TRUE
  /\ gunnerus_coords = None
  /\ send_count = 0
  /\ send_pc = "idle"

\* _validate_coords(msg, self.distance_filter) for an "!AI" message with lat
\* and lon: dist(p, q) < distance, compared here as squares
ValidateCoords(msg) ==
  /\ gunnerus_coords # None
  /\ (gunnerus_coords.lat - msg.lat) * (gunnerus_coords.lat - msg.lat)
       + (gunnerus_coords.lon - msg.lon) * (gunnerus_coords.lon - msg.lon)
       < DistanceFilter * DistanceFilter

\* _send(message), message_id "$GPRMC": _set_gunnerus_coords,
\* update_gunnerus_data, websocket.send; _validate_coords is then False
SendGprmc ==
  /\ send_pc = "idle"
  /\ sim_pc = "running"
  /\ send_count < MaxSent
  /\ send_count' = send_count + 1
  /\ gunnerus_coords' = [lat |-> 0, lon |-> 0]
  /\ gunnerus_data' = ColavOwnShip
  /\ relay' = IF ws_enable
                THEN Append(relay, [message_id |-> "$GPRMC", seq |-> 0])
                ELSE relay
  /\ UNCHANGED <<ws_enable, send_pc, sim_vars, ais_data, ais_order>>

\* _send(message) for an AIS message, up to update_ais_data(message)
SendStore ==
  /\ send_pc = "idle"
  /\ sim_pc = "running"
  /\ send_count < MaxSent
  /\ send_count' = send_count + 1
  /\ \E id \in Keys, lat \in {6, 10, 11}, lon \in {0, 8},
        has_course \in BOOLEAN :
       LET msg == [message_id |-> id, seq |-> send_count + 1,
                   lat |-> lat, lon |-> lon, has_course |-> has_course,
                   course |-> send_count + 1, smoothed |-> FALSE]
       IN  /\ sim_msg' = Val(msg)
           /\ IF ValidateCoords(msg)
                THEN /\ ais_data' = Put(ais_data, id, msg)
                     /\ ais_order' = IF id \in DOMAIN ais_data
                                       THEN ais_order
                                       ELSE Append(ais_order, id)
                     /\ send_pc' = IF ws_enable THEN "compose" ELSE "idle"
                ELSE UNCHANGED <<ais_data, ais_order, send_pc>>
  /\ UNCHANGED <<ws_enable, gunnerus_coords, ais_history, sim_pc, relay,
                 gunnerus_data>>

\* `if self.websocket.enable:` _compose_ais_msg(message), that is
\* _set_history(message), and websocket.send.  The message is the object
\* update_ais_data has stored: what _set_history assigns to it shows in the
\* coordinator's map.
SendCompose ==
  /\ send_pc = "compose"
  /\ LET msg == sim_msg.val
         id == msg.message_id
         known == id \in DOMAIN ais_history
         raised == known /\ KeyError(ais_history[id], msg)
         composed == [msg EXCEPT !.smoothed = msg.has_course]
     IN  /\ ais_history' =
               Put(ais_history, id,
                   IF known THEN KnownTrack(ais_history[id], msg)
                            ELSE NewTrack(msg))
         /\ IF raised
              THEN /\ sim_pc' = "crashed"
                   /\ UNCHANGED <<sim_msg, ais_data, relay>>
              ELSE /\ sim_msg' = Val(composed)
                   /\ ais_data' = Put(ais_data, id, composed)
                   /\ relay' = Append(relay, composed)
                   /\ UNCHANGED sim_pc
  /\ send_pc' = "idle"
  /\ UNCHANGED <<ws_enable, gunnerus_coords, send_count, ais_order,
                 gunnerus_data>>

NextSend ==
  \/ SendGprmc /\ UNCHANGED not_send_vars
  \/ SendStore /\ UNCHANGED not_send_vars
  \/ SendCompose /\ UNCHANGED not_send_vars

(***************************************************************************)
(* The rollout of cbf_poly._process_data.  Angles are in half degrees and  *)
(* yaw rates in half degrees per second: max_azi_d = 1 degree is 2,        *)
(* max_azi = 30 degrees is 60, and max_rd = 0.18 rad/s lies between 20 and *)
(* 21, so a whole number is within max_rd exactly when it is within 20.    *)
(* Times are in tenths of a second.  The position and heading the 4-DOF    *)
(* model returns, and with them the nominal control rd_n, the barrier      *)
(* values B1 and B1_dot of each domain line, LgB2 and the yaw rate x[8],   *)
(* are taken from small sets at each step.  The values are such that       *)
(* every quotient the code forms is whole (epsilon = 1e-6 is left out: it  *)
(* changes a quotient by one part in a million, and makes 0/0 equal 0).    *)
(***************************************************************************)
MaxSteps == 3

MaxRd == 20

MaxAzi == 60

MaxAziD == 2

\* k2 = 0.5 and k3 = 0.5 in halves (colav_manager.__init__)
K2Halves == 1

K3Halves == 1

\* 1 / gamma_1 with gamma_1 = 0.2, and gamma_2
Gamma1Inv == 5

Gamma2 == 40

Sign(x) == IF x > 0 THEN 1 ELSE IF x < 0 THEN -1 ELSE 0

NoRateLimit(p_azi, ad) == ad

\* the rate-limit branch of _get_azi
RateLimit(p_azi, ad) ==
  IF Abs(p_azi - ad) > MaxAziD THEN p_azi + Sign(ad) * MaxAziD ELSE ad

\* ad = -self.k2 * (r - r_safe) + self.k3 * r_safe; r and r_safe are even
AziCommand(r, r_safe) ==
  Trunc(-K2Halves * (r - r_safe) + K3Halves * r_safe, 2)

\* cbf_4dof._get_azi(r, r_safe, p_azi)
GetAzi(r, r_safe, p_azi) ==
  LET ad == RateLimit(p_azi, AziCommand(r, r_safe))
  IN  IF ad > MaxAzi THEN MaxAzi
      ELSE IF ad < -MaxAzi THEN -MaxAzi
      ELSE ad

LastOf(B) == B[Cardinality(DOMAIN B) - 1]

\* B1[0] and B2[0], the references of an initialization step
First(B) == B[0]

SetMin(S) == CHOOSE i \in S : \A j \in S : i <= j

\* cbf_poly._select_active_constraint: B1 and B1_dot are the vectors over the
\* lines of the domain (index from 0), B1_p and B2_p the values of the step
\* before or None, h_p the index of the step before.  B2 <= B2_p - hyst_w
\* with hyst_w = 1e-8 is B2 < B2_p on whole numbers.
SelectActiveConstraint(B1, B1_dot, B1_p, B2_p, h_p) ==
  LET B2 == [i \in DOMAIN B1 |-> B1_dot[i] + Gamma1Inv * B1[i]]
      initializing == B1_p = None \/ B2_p = None
      b1_p == IF initializing THEN First(B1) ELSE B1_p.val
      b2_p == IF initializing THEN First(B2) ELSE B2_p.val
      max_B1 == IF b1_p > 0 THEN b1_p ELSE 0
      H1 == {i \in DOMAIN B1 : B1[i] <= max_B1}
      H2 == IF initializing
              THEN {i \in DOMAIN B2 : B2[i] <= b2_p}
              ELSE {i \in DOMAIN B2 : B2[i] < b2_p}
      H == H1 \cap H2
      h == IF H = {} THEN h_p.val ELSE SetMin(H)
  IN  [B1 |-> B1[h], B2 |-> B2[h], LfB2 |-> Gamma1Inv * B1_dot[h], h |-> h]

RecordLatest(maneuver_start, t) == Val(t * SuperDtTenths)

\* `if maneuver_start is None: maneuver_start = t * self._dt`
RecordManeuverStart(maneuver_start, t) ==
  IF maneuver_start = None THEN Val(t * SuperDtTenths) ELSE maneuver_start

\* the values drawn at a step
RdNs == {0, 40}

YawRates == {0, 4}

B1s == {-8, 8}

B1Dots == {-40, 40}

LgB2s == {0, 1}

DomainLens == {1, 2}

RolloutEncounters == {"HEADON", "GIVEWAY"}

StartTimes == {25}

RolloutIdle ==
  rollout = [pc |-> "idle", t |-> 0, start_time |-> 0,
             domains |-> [e \in RolloutEncounters |-> 1],
             maneuver_start |-> None,
             start_maneuver_at |-> None, B1 |-> None, B2 |-> None,
             encounter |-> None, h |-> None, rd |-> None, azi |-> 0,
             p_azi |-> 0, ad |-> 0, took |-> <<>>, reset |-> FALSE]

\* _process_data up to the loop: start_time = time(), maneuver_start = None,
\* azi = 0 (infer_azi_revs), B1 = B2 = encounter = h = None.  Of the argument
\* domains the number of lines of each class is kept.
RolloutStart ==
  /\ rollout.pc = "idle"
  /\ \E st \in StartTimes, d \in [RolloutEncounters -> DomainLens] :
       rollout' = [rollout EXCEPT !.pc = "loop", !.start_time = st,
                                  !.domains = d]

\* one turn of `for t in range(self._hist_len)`
RolloutStep ==
  /\ rollout.pc = "loop"
  /\ rollout.t < MaxSteps
  /\ \E rd_n \in RdNs, r \in YawRates, LgB2 \in LgB2s,
        enc \in RolloutEncounters :
       \E B1 \in [0 .. rollout.domains[enc] - 1 -> B1s],
          B1_dot \in [0 .. rollout.domains[enc] - 1 -> B1Dots] :
         LET reset == Val(enc) # rollout.encounter
             sel == SelectActiveConstraint(
                      B1, B1_dot,
                      IF reset THEN None ELSE rollout.B1,
                      IF reset THEN None ELSE rollout.B2,
                      rollout.h)
             B2_dot == LgB2 * rd_n + sel.LfB2
             nominal == Gamma2 * B2_dot <= -sel.B2
             a == sel.LfB2 + LgB2 * rd_n + Trunc(sel.B2, Gamma2)
             rd == IF nominal THEN rd_n
                   ELSE rd_n - (IF LgB2 = 0 THEN 0
                                ELSE Trunc(a * LgB2, LgB2 * LgB2))
         IN  rollout' =
               [rollout EXCEPT
                  !.t = @ + 1,
                  !.encounter = Val(enc),
                  !.B1 = Val(sel.B1),
                  !.B2 = Val(sel.B2),
                  !.h = Val(sel.h),
                  !.reset = reset,
                  !.rd = Val(rd),
                  !.maneuver_start =
                     IF nominal THEN @ ELSE RecordManeuverStart(@, rollout.t),
                  !.took = Append(@, ~nominal),
                  !.p_azi = rollout.azi,
                  !.ad = AziCommand(r, rd),
                  !.azi = GetAzi(r, rd, rollout.azi)]

\* after the loop: start_maneuver_at, CBF_Data, ret_var.put
RolloutReturn ==
  /\ rollout.pc = "loop"
  /\ rollout.t = MaxSteps
  /\ rollout' = [rollout EXCEPT
                   !.pc = "done",
                   !.start_maneuver_at =
                      IF rollout.maneuver_start # None
                        THEN Val(rollout.start_time + rollout.maneuver_start.val)
                        ELSE Val(-1)]

NextRollout ==
  \/ RolloutStart /\ UNCHANGED not_ro_vars
  \/ RolloutStep /\ UNCHANGED not_ro_vars
  \/ RolloutReturn /\ UNCHANGED not_ro_vars

\* _get_azi called with the azimuth it returned last
CallGetAzi ==
  \E r \in {2 * k : k \in -2 .. 2}, r_safe \in {2 * k : k \in -3 .. 3} :
    rollout' = [rollout EXCEPT !.p_azi = rollout.azi,
                               !.ad = AziCommand(r, r_safe),
                               !.azi = GetAzi(r, r_safe, rollout.azi),
                               !.rd = Val(r_safe)]

NextAzi == CallGetAzi /\ UNCHANGED not_ro_vars

(***************************************************************************)
(* encounter_classifier.classify_encounter.  Angles are in units of 10     *)
(* degrees, so that theta_1 = 20 degrees, theta_2 = 120 degrees, the       *)
(* sector bounds and the middle of sector 3 are whole numbers.  The        *)
(* positions enter through the bearing of the target from own ship,        *)
(* atan2(e_ts - e, n_ts - n), and through the sign of prod = p_rel @ v_rel,*)
(* which the speeds of the two ships make negative, zero or positive.      *)
(***************************************************************************)
FullCircle == 36

Theta1 == 2

Theta2 == 12

\* encounter_classifier.__init__: self._sector_arcs (index from 0)
SectorArcs ==
  [i \in 0 .. 3 |->
     CASE i = 0 -> 2 * Theta1
       [] i = 1 -> Theta2 - Theta1
       [] i = 2 -> 2 * (FullCircle \div 2 - Theta2)
       [] i = 3 -> Theta2 - Theta1]

\* self._encounters[rbs][ss]: an Encounters member (one element here), a pair
\* or the triple of rbs 1, ss 3
EncounterTable ==
  <<<< <<"HEADON">>, <<"GIVEWAY">>,
       <<"SAFE", "OVERTAKING_PORT", "OVERTAKING_STAR">>, <<"STANDON">> >>,
    << <<"GIVEWAY">>, <<"GIVEWAY">>, <<"SAFE", "OVERTAKING_STAR">>,
       <<"SAFE">> >>,
    << <<"SAFE", "STANDON">>, <<"SAFE", "STANDON">>, <<"SAFE">>,
       <<"SAFE", "STANDON">> >>,
    << <<"STANDON">>, <<"SAFE">>, <<"SAFE", "OVERTAKING_PORT">>,
       <<"STANDON">> >> >>

IsAngleStrictlyInRange(angle, start_range, end_range) ==
  LET normalized_angle == angle % FullCircle
      normalized_start_range == start_range % FullCircle
      normalized_end_range == end_range % FullCircle
  IN  IF normalized_start_range <= normalized_end_range
        THEN /\ normalized_start_range < normalized_angle
             /\ normalized_angle < normalized_end_range
        ELSE \/ normalized_start_range < normalized_angle
             \/ normalized_angle < normalized_end_range

\* is_angle_in_range: all three angles are taken modulo 2 pi
IsAngleInRange(angle, start_range, end_range) ==
  LET normalized_angle == angle % FullCircle
      normalized_start_range == start_range % FullCircle
      normalized_end_range == end_range % FullCircle
  IN  IF normalized_start_range <= normalized_end_range
        THEN /\ normalized_start_range <= normalized_angle
             /\ normalized_angle <= normalized_end_range
        ELSE \/ normalized_start_range <= normalized_angle
             \/ normalized_angle <= normalized_end_range

\* the if / elif chain of get_rbs and of get_ss: sectors 2, 3, 4 and 1 are
\* tried in this order from the bound theta of sector 2
Sector(angle, theta) ==
  LET b2 == theta + SectorArcs[1]
      b3 == b2 + SectorArcs[2]
      b4 == b3 + SectorArcs[3]
  IN  IF IsAngleInRange(angle, theta, b2) THEN 2
      ELSE IF IsAngleInRange(angle, b2, b3) THEN 3
      ELSE IF IsAngleInRange(angle, b3, b4) THEN 4
      ELSE IF IsAngleInRange(angle, b4, theta) THEN 1
      ELSE 0

\* get_rbs: phi = atan2(e_ts - e, n_ts - n) - rvg_course
GetRbs(rvg_course, bearing) == Sector(bearing - rvg_course, Theta1)

\* get_ss: phi_ts = atan2(e - e_ts, n - n_ts), the bearing of own ship from
\* the target; returns ss, theta_11, theta_22
GetSs(ts_course, bearing) ==
  LET phi_ts == bearing + FullCircle \div 2
  IN  [ss |-> Sector(ts_course, Theta1 + phi_ts),
       theta_11 |-> Theta1 + phi_ts, theta_22 |-> Theta2 + phi_ts]

StrictlyIncreasing(prod) == IF prod > 0 THEN 0 ELSE 1

\* identify_range_situation: Range_Situation.INCREASING = 0, CLOSING_IN = 1
IdentifyRangeSituation(prod) == IF prod >= 0 THEN 0 ELSE 1

\* classify_encounter; the class returned, or the tuple itself when neither
\* half of sector 3 holds the course
ClassifyEncounter(rvg_course, ts_course, bearing, prod) ==
  LET rbs == GetRbs(rvg_course, bearing)
      s == GetSs(ts_course, bearing)
      range_situation == IdentifyRangeSituation(prod)
      encounter == EncounterTable[rbs][s.ss]
      half == SectorArcs[2] \div 2
  IN  IF Len(encounter) = 1 THEN encounter[1]
      ELSE IF Len(encounter) = 2 THEN encounter[range_situation + 1]
      ELSE IF range_situation = 0 THEN encounter[1]
      ELSE IF IsAngleInRange(ts_course, s.theta_22, s.theta_22 + half)
        THEN encounter[2]
      ELSE IF IsAngleInRange(ts_course, s.theta_22 + half,
                             s.theta_22 + SectorArcs[2])
        THEN encounter[3]
      ELSE "tuple"

Angles == 0 .. FullCircle - 1

Prods == {-1, 0, 1}

NoCall ==
  [called |-> FALSE, rvg_course |-> 0, ts_course |-> 0, bearing |-> 0,
   prod |-> 0, rbs |-> 0, ss |-> 0, encounter |-> "SAFE"]

ClassifierIdle == classification = NoCall

\* one call, on a classifier that has not been called
CallClassifyEncounter ==
  /\ ~classification.called
  /\ \E rvg_course \in Angles, ts_course \in Angles, bearing \in Angles,
        prod \in Prods :
    classification' =
      [called |-> TRUE, rvg_course |-> rvg_course, ts_course |-> ts_course,
       bearing |-> bearing, prod |-> prod,
       rbs |-> GetRbs(rvg_course, bearing),
       ss |-> GetSs(ts_course, bearing).ss,
       encounter |-> ClassifyEncounter(rvg_course, ts_course, bearing, prod)]

NextClassifier == CallClassifyEncounter /\ UNCHANGED not_ec_vars

(***************************************************************************)
(* mqtt_datastream_manager._decode and fast_serializer: the transport      *)
(* thread appends parsed messages to parsed_msg_list, the serializer       *)
(* thread reads its last element and pops its last element.  No lock.      *)
(* Parsed messages are numbered in the order of their arrival.             *)
(***************************************************************************)
MaxParsed == 3        \* messages the transport thread parses

Front(list) == SubSeq(list, 1, Len(list) - 1)

\* fast_serializer.__init__ over a new mqtt_datastream_manager
SerializerIdle ==
  serializer = [parsed_msg_list |-> <<>>, sorted_data |-> <<>>, decoded |-> 0,
                bufferBusy |-> FALSE, pc |-> "test", message |-> 0,
                msg_id |-> 0]

\* _decode: self.parsed_msg_list.append(message)
Decode ==
  /\ serializer.decoded < MaxParsed
  /\ serializer' =
       [serializer EXCEPT
          !.decoded = @ + 1,
          !.parsed_msg_list = Append(@, serializer.decoded + 1)]

\* _serialize_buffered_message: `if len(self._buffer_data) < 1`, and
\* _message = self._buffer_data[-1][1]
ReadMessage ==
  /\ serializer.pc = "test"
  /\ \/ serializer.bufferBusy
     \/ serializer.parsed_msg_list # <<>>
  /\ serializer' =
       IF serializer.parsed_msg_list = <<>>
         THEN [serializer EXCEPT !.bufferBusy = FALSE]
         ELSE [serializer EXCEPT
                 !.bufferBusy = TRUE,
                 !.message = Last(serializer.parsed_msg_list),
                 !.pc = "msg_id"]

\* msg_id = self._buffer_data[-1][0] (and the metadata of [-1])
ReadMsgId ==
  /\ serializer.pc = "msg_id"
  /\ serializer' =
       [serializer EXCEPT
          !.msg_id = Last(serializer.parsed_msg_list),
          !.pc = "serialize"]

\* pop_parsed_msg_list()
PopParsedMsgList(list) == IF Len(list) < 1 THEN list ELSE Front(list)

\* self._serialize_data(message); self._datstream_manager.pop_parsed_msg_list()
SerializeData ==
  /\ serializer.pc = "serialize"
  /\ serializer' =
       [serializer EXCEPT
          !.sorted_data = Append(@, [message |-> serializer.message,
                                     msg_id |-> serializer.msg_id]),
          !.parsed_msg_list = PopParsedMsgList(@),
          !.pc = "test"]

NextSerializer ==
  /\ \/ Decode
     \/ ReadMessage
     \/ ReadMsgId
     \/ SerializeData
  /\ UNCHANGED not_ser_vars

(***************************************************************************)
(* simulation_manager: the thread of simulation_manager.start, the threads *)
(* of the simulation servers it creates, the websocket thread that stores  *)
(* data_mode, and the serializer thread that appends to sorted_data, the   *)
(* buffer every server consumes.  Records are numbered in the order in     *)
(* which they are appended.                                                *)
(***************************************************************************)
MaxModeMsgs == 2      \* data_mode messages the websocket receives
MaxRecords == 2       \* records the serializer appends to sorted_data
MaxServers == MaxModeMsgs + 1

Modes == {"rt", "replay", "4dof"}

\* message_id of the records: own-ship reports and AIS reports alternate
MessageId(n) == IF n % 2 = 1 THEN "$GPRMC" ELSE "!AI"

\* simulation_server.__init__ (and its subclasses): a server of one type
NewServer(type, thread) ==
  [type |-> type, running |-> FALSE, thread |-> thread, rvg_state |-> FALSE]

\* set_simulation_type: the class that is instantiated for a mode
SetSimulationType(mode) ==
  IF mode = "replay" THEN "replay" ELSE IF mode = "4dof" THEN "4dof" ELSE "rt"

\* simulation_4dof._send_msg_filter: which records a server passes to _send
Sends(type, n) == type = "rt" \/ MessageId(n) = "!AI"

\* core.__init__: simulation_manager(mode="4dof") and then
\* set_simulation_type(mode_replay) with a log file, (mode_rt) without
ManagerNew(type) ==
  [pc |-> "start", mode |-> "4dof", data_mode |-> "none", received |-> 0,
   servers |-> <<NewServer(SetSimulationType(type), "new")>>,
   sorted_data |-> <<>>, appended |-> 0, sent |-> <<>>, removed |-> <<>>]

ManagerIdle == simulation_manager = ManagerNew("rt")

\* the server simulation_manager.simulation_server refers to
Current == Len(simulation_manager.servers)

\* simulation_manager.start up to the loop: Thread(...), start_sim()
ManagerStart ==
  /\ simulation_manager.pc = "start"
  /\ simulation_manager' =
       [simulation_manager EXCEPT
          !.pc = "poll",
          !.servers[Current].thread = "started"]

\* rvg_leidarstein_websocket.start: self.received_data["data_mode"] = val
ReceiveDataMode ==
  /\ simulation_manager.received < MaxModeMsgs
  /\ \E val \in Modes :
       simulation_manager' =
         [simulation_manager EXCEPT
            !.data_mode = val,
            !.received = @ + 1]

\* one turn of the loop of simulation_manager.start that finds a data_mode
\* other than self.mode.  _format_init reads rvg_state["lat"], which a server
\* that has sent no $GPRMC does not have (KeyError).
SwitchMode ==
  /\ simulation_manager.pc = "poll"
  /\ simulation_manager.data_mode \notin {"none", simulation_manager.mode}
  /\ Current < MaxServers
  /\ LET mode == simulation_manager.data_mode
     IN IF /\ mode = "4dof"
           /\ simulation_manager.mode = "rt"
           /\ ~simulation_manager.servers[Current].rvg_state
          THEN simulation_manager' = [simulation_manager EXCEPT !.pc = "failed"]
          ELSE simulation_manager' =
                 [simulation_manager EXCEPT
                    !.mode = mode,
                    !.servers =
                      Append([@ EXCEPT ![Current].running = FALSE],
                             NewServer(SetSimulationType(mode), "started"))]

\* the first statement of a server's start: self._running = True
ServerStart(i) ==
  /\ simulation_manager.servers[i].thread = "started"
  /\ simulation_manager' =
       [simulation_manager EXCEPT
          !.servers[i].running = TRUE,
          !.servers[i].thread = "loop"]

\* `while self._running:` and the body up to the end of _send.  The replay
\* server reads parse_complete of its datastream manager, which the
\* mqtt_datastream_manager core creates does not have (AttributeError).
ServerSend(i) ==
  LET server == simulation_manager.servers[i]
      buffer == simulation_manager.sorted_data
  IN /\ server.thread = "loop"
     /\ ~server.running \/ server.type = "replay" \/ buffer # <<>>
     /\ simulation_manager' =
          IF ~server.running
            THEN [simulation_manager EXCEPT !.servers[i].thread = "exited"]
          ELSE IF server.type = "replay"
            THEN [simulation_manager EXCEPT !.servers[i].thread = "failed"]
          ELSE [simulation_manager EXCEPT
                  !.servers[i].thread = "sending",
                  !.servers[i].rvg_state =
                    @ \/ (Sends(server.type, Head(buffer))
                            /\ MessageId(Head(buffer)) = "$GPRMC"),
                  !.sent =
                    IF Sends(server.type, Head(buffer))
                      THEN Append(@, [server |-> i, record |-> Head(buffer)])
                      ELSE @]

\* pop_buffer(0)
PopBuffer(i) ==
  /\ simulation_manager.servers[i].thread = "sending"
  /\ simulation_manager' =
       IF Len(simulation_manager.sorted_data) < 1
         THEN [simulation_manager EXCEPT !.servers[i].thread = "loop"]
         ELSE [simulation_manager EXCEPT
                 !.servers[i].thread = "loop",
                 !.removed = Append(@, Head(simulation_manager.sorted_data)),
                 !.sorted_data = Tail(@)]

\* fast_serializer._serialize_data: self.sorted_data.append(message)
AppendSortedData ==
  /\ simulation_manager.appended < MaxRecords
  /\ simulation_manager' =
       [simulation_manager EXCEPT
          !.appended = @ + 1,
          !.sorted_data = Append(@, simulation_manager.appended + 1)]

ServerSteps ==
  \E i \in 1 .. Current : ServerStart(i) \/ ServerSend(i) \/ PopBuffer(i)

NextManager ==
  /\ \/ ManagerStart
     \/ ReceiveDataMode
     \/ SwitchMode
     \/ \E i \in 1 .. Current : ServerStart(i)
     \/ \E i \in 1 .. Current : ServerSend(i)
     \/ \E i \in 1 .. Current : PopBuffer(i)
     \/ AppendSortedData
  /\ UNCHANGED not_mgr_vars

ExtIdle ==
  /\ DomainsIdle
  /\ TransformIdle
  /\ SimIdle
  /\ CbfIdle
  /\ SendIdle
  /\ RolloutIdle
  /\ ClassifierIdle
  /\ SerializerIdle
  /\ ManagerIdle

Init == DsmIdle /\ ArpaIdle /\ ColavInit /\ ExtIdle

Spec == Init /\ [][Next]_vars

\* Spec with a clock that keeps ticking and a main thread that, once it has
\* started a CBF process, takes every step that is not blocked: q.get()
\* returns when the queue holds a result, join() when the process has ended,
\* and the loop starts the next update when it is due.
SpecLive ==
  /\ Spec
  /\ WF_vars(Tick)
  /\ WF_vars(QGet)
  /\ WF_vars(Join)
  /\ WF_vars(SendCbf)
  /\ WF_vars(BeginUpdate)

SpecStop == Init /\ [][NextStop]_vars

InitArpa == ArpaIdle /\ DsmIdle /\ ColavInit /\ ExtIdle

NextDsm == Update /\ UNCHANGED <<arpa_vars, colav_vars, ext_vars>>

InitDsm == DsmNew /\ ArpaIdle /\ ColavInit /\ ExtIdle

SpecDsm == InitDsm /\ [][NextDsm]_vars

SpecArpa == InitArpa /\ [][NextArpa]_vars

CoreIdle == DsmIdle /\ ArpaIdle /\ ColavInit

InitDomains ==
  /\ CoreIdle
  /\ DomainsNew
  /\ TransformIdle
  /\ SimIdle
  /\ CbfIdle
  /\ SendIdle
  /\ RolloutIdle
  /\ ClassifierIdle
  /\ SerializerIdle
  /\ ManagerIdle

SpecDomains == InitDomains /\ [][NextDomains]_vars

InitTransform ==
  /\ CoreIdle
  /\ DomainsIdle
  /\ TransformNew
  /\ SimIdle
  /\ CbfIdle
  /\ SendIdle
  /\ RolloutIdle
  /\ ClassifierIdle
  /\ SerializerIdle
  /\ ManagerIdle

SpecTransform == InitTransform /\ [][NextTransform]_vars

InitSim ==
  /\ CoreIdle
  /\ DomainsIdle
  /\ TransformIdle
  /\ SimIdle
  /\ CbfIdle
  /\ SendIdle
  /\ RolloutIdle
  /\ ClassifierIdle
  /\ SerializerIdle
  /\ ManagerIdle

SpecSim == InitSim /\ [][NextSim]_vars

InitCbf ==
  /\ CoreIdle
  /\ DomainsIdle
  /\ TransformIdle
  /\ SimIdle
  /\ CbfNew
  /\ SendIdle
  /\ RolloutIdle
  /\ ClassifierIdle
  /\ SerializerIdle
  /\ ManagerIdle

SpecCbf == InitCbf /\ [][NextCbf]_vars

InitRollout ==
  /\ CoreIdle
  /\ DomainsIdle
  /\ TransformIdle
  /\ SimIdle
  /\ CbfIdle
  /\ SendIdle
  /\ RolloutIdle
  /\ ClassifierIdle
  /\ SerializerIdle
  /\ ManagerIdle

SpecRollout == InitRollout /\ [][NextRollout]_vars

SpecAzi == InitRollout /\ [][NextAzi]_vars

InitClassifier ==
  /\ CoreIdle
  /\ DomainsIdle
  /\ TransformIdle
  /\ SimIdle
  /\ CbfIdle
  /\ SendIdle
  /\ RolloutIdle
  /\ ClassifierIdle
  /\ SerializerIdle
  /\ ManagerIdle

SpecClassifier == InitClassifier /\ [][NextClassifier]_vars

InitSerializer ==
  /\ CoreIdle
  /\ DomainsIdle
  /\ TransformIdle
  /\ SimIdle
  /\ CbfIdle
  /\ SendIdle
  /\ RolloutIdle
  /\ ClassifierIdle
  /\ SerializerIdle
  /\ ManagerIdle

SpecSerializer == InitSerializer /\ [][NextSerializer]_vars

\* core.__init__ with and without a log file
InitManager ==
  /\ CoreIdle
  /\ DomainsIdle
  /\ TransformIdle
  /\ SimIdle
  /\ CbfIdle
  /\ SendIdle
  /\ RolloutIdle
  /\ ClassifierIdle
  /\ SerializerIdle
  /\ \E type \in {"rt", "replay"} : simulation_manager = ManagerNew(type)

SpecManager == InitManager /\ [][NextManager]_vars

\* Every thread that can take a step eventually takes one.
SpecManagerLive ==
  /\ SpecManager
  /\ WF_vars(ManagerStart /\ UNCHANGED not_mgr_vars)
  /\ WF_vars(SwitchMode /\ UNCHANGED not_mgr_vars)
  /\ WF_vars(ServerSteps /\ UNCHANGED not_mgr_vars)

InitSend ==
  /\ CoreIdle
  /\ DomainsIdle
  /\ TransformIdle
  /\ SimIdle
  /\ CbfIdle
  /\ RolloutIdle
  /\ ClassifierIdle
  /\ SerializerIdle
  /\ ManagerIdle
  /\ ws_enable \in BOOLEAN
  /\ gunnerus_coords = None
  /\ send_count = 0
  /\ send_pc = "idle"

SpecSend == InitSend /\ [][NextSend]_vars

(***************************************************************************)
(* Claims on arpa (checked under SpecArpa)                                 *)
(***************************************************************************)
ArpaRecords ==
  IF arpa_out.processed_data.present
    THEN arpa_out.processed_data.records ELSE {}

\* C5: every record _process_data returns has t_2_cpa >= 0,
\* d_at_cpa <= safety_radius * safety_radius_tol and d_2_cpa <= max_d_2_cpa,
\* and a target whose velocity equals own ship's yields no record.
C5_RecordsPassGates ==
  /\ \A r \in ArpaRecords :
       /\ r.t_2_cpa >= 0
       /\ r.d_at_cpa * 2 <= SafetyRadiusM * 3
       /\ r.d_2_cpa <= MaxD2Cpa
  /\ \A k \in DOMAIN arpa_ais_data :
       (/\ arpa_gunnerus_data.present
        /\ arpa_ais_data[k].uo_x = arpa_gunnerus_data.ux
        /\ arpa_ais_data[k].uo_y = arpa_gunnerus_data.uy)
         => \A r \in ArpaRecords : r.mmsi # arpa_ais_data[k].mmsi

\* A record was returned for a target that passes outside the safety radius
\* but inside the tolerance, own ship travelling more than 1 km to the CPA.
C5_Witness ==
  \E r \in ArpaRecords :
    r.d_at_cpa > SafetyRadiusM /\ r.t_2_cpa > 0 /\ r.d_2_cpa > 1000

\* C6: every returned record with safety_params set has
\* d_at_cpa < safety_radius and t_2_r >= 0.
C6_SafetyParamsNonNegativeTime ==
  \A r \in ArpaRecords :
    r.safety_params => (r.d_at_cpa < SafetyRadiusM /\ r.t_2_r >= 0)

(***************************************************************************)
(* Claims on the state machine (checked under SpecDsm)                     *)
(***************************************************************************)
IsDsmUpdate == dsm_in' # NoInput

\* C1: an update called in a non-SAFE state X leaves the machine in X or in
\* SAFE; it never moves from one non-SAFE state to another non-SAFE state.
C1_NoDirectNonSafeToNonSafe ==
  [][(IsDsmUpdate /\ current_state \in NonSafe)
       => current_state' \in {current_state, "SAFE"}]_dsm_vars

\* An update was called with the entry predicate true and a non-SAFE
\* classification other than the state the machine is (and stays) in.
C1_Witness ==
  /\ current_state \in NonSafe
  /\ dsm_in.encounter \in NonSafe \ {current_state}
  /\ dsm_in.d_at_cpa < dsm_th.d_enter_up_cpa
  /\ dsm_in.t_2_cpa > dsm_th.t_enter_low_cpa
  /\ dsm_in.t_2_cpa < dsm_th.t_enter_up_cpa

\* C2: the machine starts in SAFE, and an update moves it from SAFE to a
\* non-SAFE state X only if, in that update, d_at_cpa < d_enter_up_cpa and
\* t_enter_low_cpa < t_2_cpa < t_enter_up_cpa and the classification is X.
C2_EntryOnlyOnPredicateAndClass ==
  /\ current_state = "SAFE"
  /\ [][(current_state = "SAFE" /\ current_state' # "SAFE")
          => /\ dsm_in'.d_at_cpa < dsm_th.d_enter_up_cpa
             /\ dsm_th.t_enter_low_cpa < dsm_in'.t_2_cpa
             /\ dsm_in'.t_2_cpa < dsm_th.t_enter_up_cpa
             /\ dsm_in'.encounter = current_state']_dsm_vars

\* The machine has entered a non-SAFE state on a GIVEWAY classification.
C2_Witness ==
  /\ current_state = "GIVEWAY"
  /\ dsm_in.encounter = "GIVEWAY"
  /\ dsm_in.d_at_cpa < dsm_th.d_enter_up_cpa

\* C3: an update called in a non-SAFE state with classification SAFE, or
\* with d_at_cpa >= d_exit_low_cpa or t_2_cpa < t_exit_low_cpa or
\* t_2_cpa > t_exit_up_cpa, leaves the machine in SAFE.
C3_ExitOnSafeClassOrExitPredicate ==
  [][(/\ IsDsmUpdate
      /\ current_state \in NonSafe
      /\ \/ dsm_in'.encounter = "SAFE"
         \/ dsm_in'.d_at_cpa >= dsm_th.d_exit_low_cpa
         \/ dsm_in'.t_2_cpa < dsm_th.t_exit_low_cpa
         \/ dsm_in'.t_2_cpa > dsm_th.t_exit_up_cpa)
       => current_state' = "SAFE"]_dsm_vars

\* The distance band d_enter_up_cpa < d_at_cpa < d_exit_low_cpa.
InDistanceBand(in) ==
  dsm_th.d_enter_up_cpa < in.d_at_cpa /\ in.d_at_cpa < dsm_th.d_exit_low_cpa

\* C4 as stated: an update whose d_at_cpa lies in the band leaves the state
\* as it was, whatever the state, the classification and t_2_cpa.
C4_BandKeepsState_Original ==
  [][(IsDsmUpdate /\ InDistanceBand(dsm_in'))
       => current_state' = current_state]_dsm_vars

\* C4 amended: ... provided t_2_cpa also lies inside the exit time window,
\* t_exit_low_cpa <= t_2_cpa <= t_exit_up_cpa.
C4_BandKeepsState ==
  [][(/\ IsDsmUpdate
      /\ InDistanceBand(dsm_in')
      /\ dsm_th.t_exit_low_cpa <= dsm_in'.t_2_cpa
      /\ dsm_in'.t_2_cpa <= dsm_th.t_exit_up_cpa)
       => current_state' = current_state]_dsm_vars

\* A machine in a non-SAFE state has been updated with in-band inputs inside
\* the time window and a classification differing from its state.
C4_Witness ==
  /\ current_state \in NonSafe
  /\ InDistanceBand(dsm_in)
  /\ dsm_th.t_exit_low_cpa <= dsm_in.t_2_cpa
  /\ dsm_in.t_2_cpa <= dsm_th.t_exit_up_cpa
  /\ dsm_in.encounter = "SAFE"

(***************************************************************************)
(* Claims on colav_manager and the main loop (checked under Spec)          *)
(***************************************************************************)
\* The steps of the current cycle that have been executed
StepsDone == {trace[i] : i \in DOMAIN trace}

\* The MMSIs of the records ARPA returned in the current cycle
CurrentMmsis == {r.mmsi : r \in ArpaRecords}

\* C7: once the classifier step of an update has run, the state machines
\* kept are exactly those of the MMSIs in the target list of that update,
\* and the encounters message of the update reports exactly those MMSIs.
C7_StaleClassifiersRemoved ==
  /\ ("encounter_classifiers" \in StepsDone /\ ArpaRecords # {})
       => DOMAIN encounter_classifiers = CurrentMmsis
  /\ (trace # <<>> /\ trace[Len(trace)] = "send_encounters")
       => DOMAIN sent_data = CurrentMmsis

UpdateOrder ==
  <<"snapshot", "arpa", "encounter_classifiers", "send_arpa",
    "send_encounters", "dispatch_cbf", "send_cbf">>

C9_PerIdOrderAcrossCycles ==
  \A i \in DOMAIN relay : \A j \in DOMAIN relay :
    (i < j /\ relay[i].message_id = relay[j].message_id)
      => relay[i].cycle < relay[j].cycle

\* Two consecutive cycles have each sent their three messages.
C9_Witness ==
  /\ Len(relay) >= 6
  /\ \A id \in {"arpa", "encounters", "cbf"} :
       \E i \in DOMAIN relay : \E j \in DOMAIN relay :
         /\ relay[i] = [message_id |-> id, cycle |-> 1]
         /\ relay[j] = [message_id |-> id, cycle |-> 2]

\* The CBF processes that have been started and have not ended
InFlight == {c \in Cycles : cbf_process[c] \in {"running", "delivered"}}

\* C10: at most one CBF process is in flight at any moment, and while the
\* process of a cycle is in flight no process of an earlier cycle is.
C10_AtMostOneWorker ==
  /\ Cardinality(InFlight) <= 1
  /\ \A c \in InFlight : c = cycle

\* The process of the second cycle runs after that of the first has ended.
C10_Witness ==
  /\ cycle = 2
  /\ cbf_process[1] = "exited"
  /\ cbf_process[2] = "running"

(***************************************************************************)
(* Claims on the main loop under a fair main thread (checked under         *)
(* SpecLive)                                                               *)
(***************************************************************************)
\* C11: when the CBF process of a cycle has ended without putting a result
\* on the queue, no cbf message of that cycle is sent and a later update
\* cycle is eventually started (for every cycle but the last the bound
\* MaxCycles admits).
C11_FaultedWorkerCycleContinues ==
  \A c \in 1..(MaxCycles - 1) :
    (cbf_process[c] = "failed")
      ~> (/\ cycle > c
          /\ \A i \in DOMAIN relay :
               relay[i] # [message_id |-> "cbf", cycle |-> c])

(***************************************************************************)
(* Claims on the snapshot of the AIS map (checked under Spec)              *)
(***************************************************************************)
\* C12: the deep copy of the AIS map that ARPA works on equals the map as it
\* was at one single instant between the start and the end of the copy.
C12_SnapshotIsOneInstant ==
  pc = "arpa" => deep_copy.instants # {}

(***************************************************************************)
(* Claims on the period of the update cycles (checked under Spec)          *)
(***************************************************************************)
\* C13: every update cycle after the first starts at least update_interval
\* after the start of the cycle before it.
C13_CyclesOneIntervalApart ==
  [][(cycle >= 1 /\ cycle' = cycle + 1)
       => start' >= start + UpdateInterval]_vars

(***************************************************************************)
(* Claims on the CBF domain table (checked under SpecDomains)              *)
(***************************************************************************)
\* a step of update_cbf_domain_data that begins with this value received
HandlesValue(v) ==
  /\ dom_pc = "idle"
  /\ received_data = v
  /\ handled' = v
  /\ dom_pc' # "stopped"

\* C14: an update cycle that finds a received table lacking one of the six
\* encounter classes changes neither the table in memory nor the file.
C14_IncompleteTableRejected ==
  [][\A t \in IncompleteTables :
       HandlesValue(Val(t))
         => cbf_domains' = cbf_domains /\ cbf_domains_json' = cbf_domains_json
    ]_vars

C16_FileAlwaysHoldsATable ==
  cbf_domains_json.complete

(***************************************************************************)
(* Claims on simulation_transform (checked under SpecTransform)            *)
(***************************************************************************)
\* C17: deg_2_dec of a positive DDM coordinate is negative for the
\* directions S and W and positive for N and E.
C17_SouthAndWestAreNegative ==
  (/\ transform.fn = "deg_2_dec"
   /\ transform.out # None
   /\ transform.coord > 0)
    => /\ transform.dir \in {"S", "W"} => transform.out.val < 0
       /\ transform.dir \in {"N", "E"} => transform.out.val > 0

\* C18: deg_2_dec of the pair that dec_2_deg returns for a decimal-degree
\* coordinate c is c, for c positive or negative, latitude or longitude.
C18_RoundTrip ==
  (/\ transform.fn = "deg_2_dec"
   /\ transform.origin # None
   /\ transform.out # None)
    => transform.out.val = transform.origin.val

C18_Witness ==
  /\ transform.fn = "deg_2_dec"
  /\ transform.origin # None
  /\ transform.out # None
  /\ transform.origin.val < 0
  /\ transform.origin.val % (60 * MinuteParts) # 0
  /\ transform.dir = "S"
  /\ transform.out.val = transform.origin.val

(***************************************************************************)
(* Claims on the AIS histories (checked under SpecSim)                     *)
(***************************************************************************)
Histories(h) == {h.lon_history, h.lat_history, h.course_history}

\* the samples of h are consecutive, oldest first
InOrder(h) == \A i \in 1..(Len(h) - 1) : h[i + 1] = h[i] + 1

\* C19: after every AIS update that _set_history has processed, each of the
\* three histories of every track holds at most AisHistoryLen samples; the
\* samples are the newest ones in order, the sample of the update last, and
\* a sample is missing at the old end only if the history is full.
C19_HistoriesBounded ==
  sim_pc = "running"
    => /\ \A id \in DOMAIN ais_history :
            \A h \in Histories(ais_history[id]) :
              /\ Len(h) <= AisHistoryLen
              /\ InOrder(h)
              /\ h # <<>> => (h[1] = 1 \/ Len(h) = AisHistoryLen)
       /\ sim_msg # None
            => LET h == ais_history[sim_msg.val.message_id]
               IN  /\ Last(h.lon_history) = sim_msg.val.lon
                   /\ Last(h.lat_history) = sim_msg.val.lat
                   /\ sim_msg.val.has_course
                        => Last(h.course_history) = sim_msg.val.course

C19_Witness ==
  /\ sim_pc = "running"
  /\ OtherMmsi \in DOMAIN ais_history
  /\ Len(ais_history[OtherMmsi].lon_history) = AisHistoryLen
  /\ ais_history[OtherMmsi].lon_history[1] > 1
  /\ Len(ais_history[OtherMmsi].course_history) = AisHistoryLen
  /\ ais_history[OtherMmsi].course_history[1] > 1

(***************************************************************************)
(* Claims on the CBF predictor (checked under SpecCbf)                     *)
(***************************************************************************)
\* C20: the trajectory _process_data returns has floor(t_tot / dt) samples,
\* for the t_tot and dt the predictor was constructed with.
C20_TrajectoryLength ==
  hist_p # None
    => hist_p.val = (10 * cbf_predictor.t_tot) \div cbf_predictor.dt

(***************************************************************************)
(* Claims on simulation_server._send (checked under SpecSend and SpecSim)  *)
(***************************************************************************)
\* C21: a record that is in the coordinator's AIS map and has a course has
\* the course the track smoother gave it, from the moment it is stored and
\* whether or not the websocket is enabled.
C21_StoredRecordIsSmoothed ==
  \A id \in DOMAIN ais_data :
    ais_data[id].has_course => ais_data[id].smoothed

\* C22: no sequence of AIS reports of a track, with or without a course,
\* makes the processing of a report fail.
C22_MissingFieldsNoError ==
  sim_pc # "crashed"

\* C30: once _send has handled an AIS record and an own-ship position is
\* known, the record is neither stored nor forwarded if its distance from
\* the own ship is greater than distance_filter, and it is stored (and
\* forwarded, the websocket being enabled) otherwise.
C30_DistanceGate ==
  (/\ send_pc = "idle"
   /\ sim_pc = "running"
   /\ sim_msg # None
   /\ gunnerus_coords # None)
    => LET msg == sim_msg.val
           far == (gunnerus_coords.lat - msg.lat)
                      * (gunnerus_coords.lat - msg.lat)
                    + (gunnerus_coords.lon - msg.lon)
                        * (gunnerus_coords.lon - msg.lon)
                    > DistanceFilter * DistanceFilter
           stored == /\ msg.message_id \in DOMAIN ais_data
                     /\ ais_data[msg.message_id].seq = msg.seq
           forwarded == \E i \in DOMAIN relay : relay[i].seq = msg.seq
       IN  /\ far => ~stored /\ ~forwarded
           /\ ~far => stored /\ (ws_enable => forwarded)

\* C23: once the coordinator is stopped no further update cycle starts, a
\* CBF worker that is in flight does not run to completion, and no further
\* message is sent on the outbound socket.
Stopped == pc # "start" /\ ~running

C23_StopIsFinal ==
  [][Stopped =>
       /\ cycle' = cycle
       /\ relay' = relay
       /\ \A c \in Cycles :
            cbf_process[c] = "running" => cbf_process'[c] # "delivered"]_vars

\* C24: at every step of the rollout the yaw-rate command rd handed to the
\* azimuth law lies in [-max_rd, +max_rd], on nominal and on intervening
\* steps.
C24_RdWithinMaxRd ==
  rollout.rd # None => Abs(rollout.rd.val) <= MaxRd

\* C25: starting from azimuth 0, after every step the azimuth command is
\* within max_azi and differs from the azimuth of the step before by at most
\* max_azi_d.
C25_AzimuthLimited ==
  /\ Abs(rollout.azi) <= MaxAzi
  /\ Abs(rollout.azi - rollout.p_azi) <= MaxAziD

C25_Witness ==
  /\ rollout.azi = MaxAzi
  /\ rollout.p_azi = MaxAzi - MaxAziD

\* C26: the maneuver onset a rollout returns is -1 exactly when no step
\* intervened; otherwise it is the start time plus the index of the first
\* intervening step times the step _dt, whatever later steps do.
Intervening == {i \in DOMAIN rollout.took : rollout.took[i]}

C26_ManeuverOnset ==
  rollout.pc = "done"
    => /\ rollout.start_maneuver_at.val = -1 <=> Intervening = {}
       /\ Intervening # {}
            => rollout.start_maneuver_at.val
                 = rollout.start_time
                     + (SetMin(Intervening) - 1) * SuperDtTenths

C26_Witness ==
  /\ rollout.pc = "done"
  /\ rollout.took = <<FALSE, TRUE, TRUE>>
  /\ rollout.start_maneuver_at = Val(rollout.start_time + SuperDtTenths)

\* C27: on the first step of a rollout and on every step on which the class
\* of the closest target differs from that of the step before, the active
\* constraint selected is index 0.
C27_InitializationPicksZero ==
  (rollout.t > 0 /\ rollout.reset) => rollout.h = Val(0)

C27_Witness ==
  /\ rollout.t = 2
  /\ rollout.reset
  /\ rollout.h = Val(0)
  /\ rollout.B1 = Val(8)

\* C28: the sectors are half-open [lo, hi): an angle equal to the upper bound
\* of a sector belongs to the next sector in the positive direction, for the
\* relative bearing (RBS) and for the target course (SS).
HalfOpenSector(x) ==
  IF Theta1 <= x /\ x < Theta2 THEN 2
  ELSE IF Theta2 <= x /\ x < FullCircle - Theta2 THEN 3
  ELSE IF FullCircle - Theta2 <= x /\ x < FullCircle - Theta1 THEN 4
  ELSE 1

C28_SectorsHalfOpen ==
  classification.called
    => LET c == classification
       IN  /\ c.rbs = HalfOpenSector((c.bearing - c.rvg_course) % FullCircle)
           /\ c.ss = HalfOpenSector(
                       (c.ts_course - (c.bearing + FullCircle \div 2))
                         % FullCircle)

\* C29: with RBS 1 and SS 3 the class is SAFE when the range is increasing
\* (prod >= 0); when it is closing in, OVERTAKING_PORT for a course in the
\* first half of sector 3 and OVERTAKING_STAR in the second half.  Every
\* table entry that is a pair (SAFE, X) gives SAFE when the range is
\* increasing and X when it is closing in.
C29_RangeSelectsClass ==
  classification.called
    => LET c == classification
           entry == EncounterTable[c.rbs][c.ss]
           into3 == (c.ts_course - (c.bearing + FullCircle \div 2) - Theta2)
                       % FullCircle
           mid == (FullCircle \div 2 - Theta2)
       IN  /\ (c.rbs = 1 /\ c.ss = 3)
                => IF c.prod >= 0 THEN c.encounter = "SAFE"
                   ELSE /\ into3 < mid => c.encounter = "OVERTAKING_PORT"
                        /\ into3 > mid => c.encounter = "OVERTAKING_STAR"
           /\ Len(entry) = 2
                => c.encounter = IF c.prod >= 0 THEN "SAFE" ELSE entry[2]

C29_Witness ==
  /\ classification.called
  /\ classification.rbs = 1
  /\ classification.ss = 3
  /\ classification.prod < 0
  /\ classification.encounter = "OVERTAKING_STAR"

C39_LimitedStepTowardsCommand ==
  Abs(rollout.p_azi - rollout.ad) > MaxAziD
    => Abs(rollout.azi - rollout.ad) < Abs(rollout.p_azi - rollout.ad)

\* C34: with the thresholds the coordinator configures, a single update call
\* performs at most one transition: it never enters a non-SAFE state in its
\* entry block and leaves it again in its exit block.
C34_AtMostOneTransitionPerUpdate ==
  [][(IsDsmUpdate /\ dsm_th = ColavThresholds)
       => ~(current_state # dsm_in'.mid /\ dsm_in'.mid # current_state')]_dsm_vars

C34_Witness ==
  /\ dsm_th = ColavThresholds
  /\ dsm_in.encounter = "HEADON"
  /\ dsm_in.d_at_cpa = 299
  /\ dsm_in.t_2_cpa = 500
  /\ dsm_in.mid = "HEADON"
  /\ current_state = "HEADON"

\* C33: every d_at_cpa the coordinator feeds to an encounter state machine is
\* below d_exit_low_cpa, so the distance part of the exit predicate is false
\* for it.
C33_FedDistanceBelowExit ==
  pc = "encounter_classifiers"
    => \A r \in arpa_out.processed_data.records :
         /\ DsmDistance(r) < ColavThresholds.d_exit_low_cpa
         /\ ~(DsmDistance(r) >= ColavThresholds.d_exit_low_cpa)

C33_Witness ==
  /\ pc = "encounter_classifiers"
  /\ \E r \in arpa_out.processed_data.records :
       /\ ~r.safety_params
       /\ DsmDistance(r) = 280
       /\ DsmDistance(r) < ColavThresholds.d_exit_low_cpa
  /\ \E r \in arpa_out.processed_data.records :
       r.safety_params /\ DsmDistance(r) = SafetyRadiusM

\* What get_ARPA_parameters is about to return holds no own-ship data or no
\* qualifying target
NothingToProcess ==
  LET out == ProcessData(arpa_gunnerus_data, deep_copy.copy)
  IN ~out.gunn_data.present \/ out.processed_data.records = {}

\* The update cycle that has just ended found nothing to process
IdleCycleEnded ==
  pc = "loop" /\ cycle > 0 /\ trace = <<"snapshot", "arpa">>

\* C32: in an update cycle where ARPA returns no own-ship data or no
\* qualifying target, no CBF worker is dispatched, no arpa, encounters or cbf
\* message is emitted and every encounter state machine keeps its state.
C32_IdleCycleDoesNothing ==
  /\ [][(pc = "arpa" /\ pc' # "arpa" /\ NothingToProcess)
          => /\ pc' = "loop"
             /\ UNCHANGED <<encounter_classifiers, relay, sent_data,
                            cbf_process, q, ret_var>>]_vars
  /\ [](IdleCycleEnded
          => /\ cbf_process[cycle] = "none"
             /\ \A i \in 1 .. Len(relay) : relay[i].cycle # cycle)

C32_Witness ==
  /\ IdleCycleEnded
  /\ cycle = 2
  /\ cbf_process[1] # "none"
  /\ \E i \in 1 .. Len(relay) : relay[i].message_id = "cbf"
  /\ \E k \in DOMAIN encounter_classifiers : encounter_classifiers[k] # "SAFE"

\* The keys the AIS map held when the deep copy in progress began
KeysAtSnapshot == {ais_order[i] : i \in 1 .. deep_copy.used}

\* C35: the AIS map of the coordinator never loses an entry: a stored MMSI
\* stays in the map, a record is replaced only by a newer report for the same
\* MMSI, every item enters the copy made for ARPA as the record most recently
\* stored for it, and the completed copy holds every MMSI stored before it
\* began, however many cycles have passed.
C35_AisMapNeverLosesAnEntry ==
  /\ [][\A k \in DOMAIN ais_data :
          /\ k \in DOMAIN ais_data'
          /\ ais_data'[k] # ais_data[k] => ais_data'[k].mmsi = k]_vars
  /\ [][\A k \in DOMAIN deep_copy'.copy \ DOMAIN deep_copy.copy :
          deep_copy'.copy[k] = ais_data[k]]_vars
  /\ [](pc = "arpa"
          => /\ KeysAtSnapshot \subseteq DOMAIN deep_copy.copy
             /\ \A k \in DOMAIN deep_copy.copy : deep_copy.copy[k].mmsi = k)

C35_Witness ==
  /\ pc = "arpa"
  /\ cycle = 2
  /\ DOMAIN ais_data = Keys
  /\ DOMAIN deep_copy.copy = Keys
  /\ deep_copy.written = {}
  /\ \A k \in Keys : deep_copy.copy[k] = ais_data[k]

\* The parsed messages that are neither waiting in parsed_msg_list nor held
\* by the serializer nor in sorted_data
Lost ==
  {n \in 1 .. serializer.decoded :
     /\ \A i \in 1 .. Len(serializer.parsed_msg_list) :
          serializer.parsed_msg_list[i] # n
     /\ \A i \in 1 .. Len(serializer.sorted_data) :
          serializer.sorted_data[i].message # n
     /\ ~(serializer.pc # "test" /\ serializer.message = n)}

\* C36: every parsed message is serialized into sorted_data exactly once:
\* none is lost, none is serialized twice, and each is serialized under its
\* own id.
C36_SerializedExactlyOnce ==
  /\ Lost = {}
  /\ \A i, j \in 1 .. Len(serializer.sorted_data) :
       i # j => serializer.sorted_data[i].message
                  # serializer.sorted_data[j].message

\* The manager's server is of the type of mode m and its thread is in its loop
Runs(m) ==
  /\ simulation_manager.servers[Current].type = m
  /\ simulation_manager.servers[Current].thread \in {"loop", "sending"}

\* C31: after a data_mode message with value m has been received, the
\* simulation manager eventually runs a server of type m (unless a later
\* message has asked for another mode), for each of rt, replay and 4dof.
C31_RequestedModeEventuallyRuns ==
  \A m \in Modes :
    (simulation_manager.data_mode = m)
      ~> (simulation_manager.data_mode # m \/ Runs(m))

\* The server threads that are inside an iteration or may begin one
Consuming ==
  {i \in 1 .. Current :
     LET server == simulation_manager.servers[i]
     IN \/ server.thread = "sending"
        \/ server.thread = "loop" /\ server.running}

\* C37: never do two server loops consume the router buffer at once, and the
\* records are passed to _send once each and removed once each, in the order
\* in which they were appended.
C37_OneConsumerExactlyOnce ==
  /\ Cardinality(Consuming) <= 1
  /\ \A i \in 1 .. Len(simulation_manager.removed) :
       simulation_manager.removed[i] = i
  /\ \A i \in 1 .. Len(simulation_manager.sent) :
       simulation_manager.sent[i].record = i
  /\ Len(simulation_manager.removed) <= Len(simulation_manager.sent)

====
